---------------------------- MODULE Spec2Model ----------------------------
(***************************************************************************)
(* A model of the apoptotic gene list pipeline:                            *)
(*   step 2  src/workflow/02_homology_mapping.py   (ortholog resolver)     *)
(*   step 3  src/workflow/03_gene_consolidation.py (aggregator/classifier) *)
(*   step 4  src/workflow/04_id_annotation.py      (Ensembl annotation)    *)
(*   step 5  src/workflow/05_source_breakdown.py   (per-source breakdown)  *)
(*                                                                         *)
(* Gene symbols are Python strings.  They are modelled as sequences of     *)
(* code points, so that str.upper() and the code-point order that Python   *)
(* and pandas use to compare and sort strings are computed, not assumed.   *)
(*                                                                         *)
(* Spec          is main() of step 3 (one run of the consolidation).       *)
(* SpecResolver  is main() of step 2 (one run of the resolver).            *)
(* SpecRerun     is a run of step 2 or 3 followed by the same run again.   *)
(* SpecAnnotator is main() of step 4, on a table step 3 can write.         *)
(* SpecBreakdown is main() of step 5, on a table step 4 can write.         *)
(***************************************************************************)
EXTENDS Integers, Sequences, FiniteSets, TLC

VARIABLES
    \* ---- step 3 (03_gene_consolidation.py) ----
    pc,                \* position of main() of step 3
    orthology_exists,  \* ORTHOLOGY_FILE.exists()
    orthology_file,    \* rows of orthology_mapping.csv: <<human_symbol, mouse_symbol>>
    source_files,      \* label -> rows of the gene_symbol column of that source's CSV
    source_exists,     \* label -> filepath.exists() of that source's CSV
    h2m,               \* orthology['h2m']: human symbol -> list of mouse symbols
    m2h,               \* orthology['m2h']: mouse symbol -> human symbol
    sources,           \* label -> set of gene symbols (load_source_file)
    iteration,         \* label -> the order in which "for gene in sources[label]"
                       \* yields the set's symbols
    gene_evidence,     \* human symbol -> evidence profile
    consolidated_data, \* the list of rows built by the categorisation loop
    df,                \* the sorted consolidated table
    consolidated_csv,  \* rows written to CONSOLIDATED_FILE (<<>> while not written)
    summary_saved      \* SUMMARY_FILE was written

VARIABLES
    \* ---- step 2 (02_homology_mapping.py) ----
    rpc,                 \* position of main() of step 2
    human_genes,         \* load_gene_symbols: the human symbols of the raw files
    mouse_genes,         \* load_gene_symbols: the mouse symbols of the raw files
    batch_size,          \* batch_size of the two batched lookups
    offset,              \* i of the running batch loop
    unique_ids,          \* unique_ids of the running entrez_ids_to_symbols
    human_to_mouse_ids,  \* dict, in insertion order: <<symbol, list of mouse ids>>
    mouse_entrez_ids,    \* set of mouse ids found by phase 1
    mouse_to_human_ids,  \* dict, in insertion order: <<symbol, list of human ids>>
    human_entrez_ids,    \* set of human ids found by phase 2
    mouse_id_to_symbol,  \* mouse id -> symbol
    human_id_to_symbol,  \* human id -> symbol
    mapping_records,     \* the records built by phase 4, before deduplication
    mapping_df,          \* the pair table build_comprehensive_mapping returns
    duplicates_removed,  \* the number printed at line 273
    full_csv,            \* rows written to orthology_mapping_full.csv
    simple_csv,          \* rows written to orthology_mapping.csv
    service_log          \* every call made to the MyGene service, with its outcome

VARIABLES
    \* ---- step 4 (04_id_annotation.py) ----
    apc,                \* position of main() of step 4
    annot_df,           \* df of main(): the consolidated table, then with the id columns
    annot_batch_size,   \* batch_size of fetch_ensembl_ids_batched
    annot_offset,       \* i of the running batch loop
    valid_symbols,      \* valid_symbols of the running lookup
    symbol_to_ensembl,  \* symbol_to_ensembl of the running lookup
    human_ensembl_map,  \* what the human lookup returned
    mouse_ensembl_map,  \* what the mouse lookup returned
    annot_log,          \* every querymany call of step 4, with its outcome
    coverage,           \* the coverage statistics of lines 214-217
    final_csv           \* rows of final_apoptotic_gene_list.csv (<<>> while not written)

VARIABLES
    \* ---- step 5 (05_source_breakdown.py) ----
    bpc,                \* position of main() of step 5
    breakdown_df,       \* df of main(): the loaded final table
    label_at,           \* rank in SOURCE_PATTERNS of the label the loop is at
    all_stats,          \* dict, in insertion order: <<label, stats>>
    breakdown_csv,      \* the files written: <<label, rows>>, in the order written
    breakdown_summary   \* the statistics written to breakdown_summary.txt

VARIABLES
    \* ---- a second run on the same inputs, against the same responses ----
    run,            \* 1 in a first run, 2 in the run repeated after it
    first_log,      \* the calls of the first run, with the service's responses
    first_outcome   \* how the first run ended and the table it wrote

consolidationVars == <<pc, orthology_exists, orthology_file, source_files,
                       source_exists, h2m, m2h,
                       sources, iteration, gene_evidence, consolidated_data, df,
                       consolidated_csv, summary_saved>>

resolverVars == <<rpc, human_genes, mouse_genes, batch_size, offset, unique_ids,
                  human_to_mouse_ids, mouse_entrez_ids, mouse_to_human_ids,
                  human_entrez_ids, mouse_id_to_symbol, human_id_to_symbol,
                  mapping_records, mapping_df, duplicates_removed, full_csv,
                  simple_csv, service_log>>

annotatorVars == <<apc, annot_df, annot_batch_size, annot_offset, valid_symbols,
                   symbol_to_ensembl, human_ensembl_map, mouse_ensembl_map, annot_log,
                   coverage, final_csv>>

breakdownVars == <<bpc, breakdown_df, label_at, all_stats, breakdown_csv,
                   breakdown_summary>>

rerunVars == <<run, first_log, first_outcome>>

vars == <<consolidationVars, resolverVars, annotatorVars, breakdownVars, rerunVars>>

\* what a step leaves alone: the state of the other steps
outsideConsolidation == <<resolverVars, annotatorVars, breakdownVars, rerunVars>>
outsideResolver == <<consolidationVars, annotatorVars, breakdownVars, rerunVars>>
outsideAnnotator == <<consolidationVars, resolverVars, breakdownVars, rerunVars>>
outsideBreakdown == <<consolidationVars, resolverVars, annotatorVars, rerunVars>>

-----------------------------------------------------------------------------
(* Bounds of the model *)

\* rows in all source CSV files together
MaxRecords == 3
\* rows of the ortholog pair table
MaxPairs == 2
\* batch_size is 500 in the source; the model runs the lookups with every
\* batch size of 1..MaxBatchSize on lists of at most two items
MaxBatchSize == 2

-----------------------------------------------------------------------------
(* Strings *)

\* "CQ", "Co", "CO": human symbols; "Cq", "Cr": mouse symbols
SymCQ == <<67, 81>>
SymCo == <<67, 111>>
SymCO == <<67, 79>>
SymCq == <<67, 113>>
SymCr == <<67, 114>>

\* str.upper() on ASCII letters
Upper(s) == [i \in DOMAIN s |-> IF s[i] \in 97..122 THEN s[i] - 32 ELSE s[i]]

\* Python's str "<": lexicographic on code points, a proper prefix is smaller
RECURSIVE StrLess(_, _)
StrLess(a, b) ==
    IF Len(b) = 0 THEN FALSE
    ELSE IF Len(a) = 0 THEN TRUE
    ELSE IF Head(a) # Head(b) THEN Head(a) < Head(b)
    ELSE StrLess(Tail(a), Tail(b))

StrLeq(a, b) == a = b \/ StrLess(a, b)

\* sorted(S) for a set of strings S
RECURSIVE SortedStrings(_)
SortedStrings(S) ==
    IF S = {} THEN <<>>
    ELSE LET m == CHOOSE x \in S : \A y \in S : StrLeq(x, y)
         IN  <<m>> \o SortedStrings(S \ {m})

\* the elements of a sequence
Range(s) == {s[i] : i \in DOMAIN s}

\* the orders in which a set may yield its elements (list(set(ids)), for x in
\* a set): the order of a set of strings follows the strings' hashes, which
\* differ from one run of the interpreter to the next
Orderings(S) ==
    {o \in [1..Cardinality(S) -> S] : \A i, j \in DOMAIN o : i # j => o[i] # o[j]}

-----------------------------------------------------------------------------
(* Step 3: configuration *)

HumanSourceSymbols == {SymCQ, SymCo}
MouseSourceSymbols == {SymCq, SymCr}

\* the keys of SOURCE_FILES
SourceLabels == {"GO_Pro_Human", "GO_Anti_Human", "GO_Pro_Mouse", "GO_Anti_Mouse",
                 "KEGG", "Reactome", "Hallmark"}
MouseLabels == {"GO_Pro_Mouse", "GO_Anti_Mouse"}
HumanLabels == SourceLabels \ MouseLabels
GeneralLabels == <<"KEGG", "Reactome", "Hallmark">>

\* sorted() on the source labels: Python's order of these seven strings
LabelOrder == <<"GO_Anti_Human", "GO_Anti_Mouse", "GO_Pro_Human", "GO_Pro_Mouse",
                "Hallmark", "KEGG", "Reactome">>

LabelRank(l) == CHOOSE i \in DOMAIN LabelOrder : LabelOrder[i] = l

RECURSIVE SortedLabels(_)
SortedLabels(S) ==
    IF S = {} THEN <<>>
    ELSE LET m == CHOOSE x \in S : \A y \in S : LabelRank(x) <= LabelRank(y)
         IN  <<m>> \o SortedLabels(S \ {m})

-----------------------------------------------------------------------------
(* Step 3: the inputs of a run *)

\* every (label, gene_symbol) row a source CSV can hold, in a fixed order
RowKinds ==
    << <<"GO_Pro_Human", SymCQ>>, <<"GO_Pro_Human", SymCo>>,
       <<"GO_Anti_Human", SymCQ>>, <<"GO_Anti_Human", SymCo>>,
       <<"KEGG", SymCQ>>, <<"KEGG", SymCo>>,
       <<"Reactome", SymCQ>>, <<"Reactome", SymCo>>,
       <<"Hallmark", SymCQ>>, <<"Hallmark", SymCo>>,
       <<"GO_Pro_Mouse", SymCq>>, <<"GO_Pro_Mouse", SymCr>>,
       <<"GO_Anti_Mouse", SymCq>>, <<"GO_Anti_Mouse", SymCr>> >>

\* the multisets of at most MaxRecords rows: a row may be repeated (a gene listed
\* under several gene-set names of one source)
RowChoices ==
    {s \in UNION {[1..n -> DOMAIN RowKinds] : n \in 0..MaxRecords} :
        \A i \in DOMAIN s : \A j \in DOMAIN s : i < j => s[i] <= s[j]}

\* the gene_symbol column of label l's file
RECURSIVE FileRows(_, _)
FileRows(s, l) ==
    IF s = <<>> THEN <<>>
    ELSE IF RowKinds[Head(s)][1] = l
         THEN <<RowKinds[Head(s)][2]>> \o FileRows(Tail(s), l)
         ELSE FileRows(Tail(s), l)

SourceFileInputs == {[l \in SourceLabels |-> FileRows(s, l)] : s \in RowChoices}

\* rows of the pair table, in the order step 2 writes them
PairLess(p, q) == StrLess(p[1], q[1]) \/ (p[1] = q[1] /\ StrLess(p[2], q[2]))

\* orthology_mapping.csv as step 2 writes it: human symbols upper-cased, no
\* repeated row, sorted by (human_symbol, mouse_symbol)
PairTables ==
    {t \in UNION {[1..n -> {SymCQ, SymCO} \X MouseSourceSymbols] : n \in 0..MaxPairs} :
        \A i \in DOMAIN t : \A j \in DOMAIN t : i < j => PairLess(t[i], t[j])}


-----------------------------------------------------------------------------
(* Step 3: load_orthology_mapping and load_source_file *)

EmptyMap == <<>>

\* H2MAppend with one list shared by all the keys
H2MAppendShared(hm, human, mouse) ==
    LET shared == IF DOMAIN hm = {} THEN <<>> ELSE hm[CHOOSE k \in DOMAIN hm : TRUE]
    IN  [k \in DOMAIN hm \cup {human} |-> Append(shared, mouse)]

\* h2m[human].append(mouse), creating the list on first sight
H2MAppend(hm, human, mouse) ==
    [k \in DOMAIN hm \cup {human} |->
        IF k = human
        THEN (IF human \in DOMAIN hm THEN Append(hm[human], mouse) ELSE <<mouse>>)
        ELSE hm[k]]

\* M2HPut with the slip of keeping the first row's human symbol
M2HPutFirst(mh, mouse, human) ==
    [k \in DOMAIN mh \cup {mouse} |->
        IF k \in DOMAIN mh THEN mh[k] ELSE human]

\* m2h[mouse] = human: a later row replaces an earlier one
M2HPut(mh, mouse, human) ==
    [k \in DOMAIN mh \cup {mouse} |-> IF k = mouse THEN human ELSE mh[k]]

\* the loop over df.iterrows(), in row order
RECURSIVE LoadOrthologyRows(_, _)
LoadOrthologyRows(rows, acc) ==
    IF rows = <<>> THEN acc
    ELSE LET human == Head(rows)[1]
             mouse == Head(rows)[2]
         IN  LoadOrthologyRows(Tail(rows),
                 [h2m |-> H2MAppend(acc.h2m, human, mouse),
                  m2h |-> M2HPut(acc.m2h, mouse, human)])

load_orthology_mapping(rows) ==
    LoadOrthologyRows(rows, [h2m |-> EmptyMap, m2h |-> EmptyMap])

\* set(df['gene_symbol'].dropna().unique())
load_source_file(rows) == Range(rows)

-----------------------------------------------------------------------------
(* Step 3: consolidate_genes, the aggregation *)

\* the default of the defaultdict.  A dict keeps its keys in insertion order:
\* "inserted" is the place of the profile's key in that order.
EmptyProfile == [pro_evidence |-> {}, anti_evidence |-> {},
                 general_evidence |-> {}, mouse_symbols |-> {}, inserted |-> 0]

\* gene_evidence[k]: the profile is created on first access, as the dict's
\* last key
GetOrInsert(ge, k) ==
    IF k \in DOMAIN ge THEN ge
    ELSE [x \in DOMAIN ge \cup {k} |->
             IF x = k
             THEN [EmptyProfile EXCEPT !.inserted = Cardinality(DOMAIN ge) + 1]
             ELSE ge[x]]

\* AddEvidence with an assignment in place of .add: the label replaces the
\* field's set
AddEvidenceReplace(ge, gene, field, label) ==
    LET g == GetOrInsert(ge, gene)
    IN  [g EXCEPT ![gene][field] = {label}]

\* AddEvidence with one default profile shared by all genes: every profile
\* receives the label
AddEvidenceShared(ge, gene, field, label) ==
    LET g == GetOrInsert(ge, gene)
    IN  [x \in DOMAIN g |-> [g[x] EXCEPT ![field] = @ \cup {label}]]

\* gene_evidence[gene][field].add(label)
AddEvidence(ge, gene, field, label) ==
    LET g == GetOrInsert(ge, gene)
    IN  [g EXCEPT ![gene][field] = @ \cup {label}]

\* FileHuman with only the first of the gene's forward orthologs
FileHumanFirstOrtholog(ge, gene, field, label, hm) ==
    LET g == AddEvidence(ge, gene, field, label)
    IN  IF gene \in DOMAIN hm
        THEN [g EXCEPT ![gene].mouse_symbols = @ \cup {hm[gene][1]}]
        ELSE g

\* a record of a human source: filed under the gene itself, with the gene's
\* forward orthologs
FileHuman(ge, gene, field, label, hm) ==
    LET g == AddEvidence(ge, gene, field, label)
    IN  IF gene \in DOMAIN hm
        THEN [g EXCEPT ![gene].mouse_symbols = @ \cup Range(hm[gene])]
        ELSE g

\* FileMouse with the slip of reading gene_evidence[mouse_gene] for an
\* unmapped record: the defaultdict then creates an empty profile
FileMouseTouchUnmapped(ge, mouse_gene, field, label, mh) ==
    IF mouse_gene \in DOMAIN mh
    THEN LET human_gene == mh[mouse_gene]
             g == AddEvidence(ge, human_gene, field, label)
         IN  [g EXCEPT ![human_gene].mouse_symbols = @ \cup {mouse_gene}]
    ELSE GetOrInsert(ge, mouse_gene)

\* FileMouse with an unmapped record filed under its upper-cased symbol
FileMouseUpperFallback(ge, mouse_gene, field, label, mh) ==
    LET human_gene == IF mouse_gene \in DOMAIN mh THEN mh[mouse_gene]
                      ELSE Upper(mouse_gene)
        g == AddEvidence(ge, human_gene, field, label)
    IN  [g EXCEPT ![human_gene].mouse_symbols = @ \cup {mouse_gene}]

\* a record of a mouse source: projected through m2h, dropped when unmapped
FileMouse(ge, mouse_gene, field, label, mh) ==
    IF mouse_gene \in DOMAIN mh
    THEN LET human_gene == mh[mouse_gene]
             g == AddEvidence(ge, human_gene, field, label)
         IN  [g EXCEPT ![human_gene].mouse_symbols = @ \cup {mouse_gene}]
    ELSE ge

\* for gene in sources[label]: genes is the set in the order it is iterated
RECURSIVE ProcessHuman(_, _, _, _, _)
ProcessHuman(ge, genes, field, label, hm) ==
    IF genes = <<>> THEN ge
    ELSE ProcessHuman(FileHuman(ge, Head(genes), field, label, hm),
                      Tail(genes), field, label, hm)

RECURSIVE ProcessMouse(_, _, _, _, _)
ProcessMouse(ge, genes, field, label, mh) ==
    IF genes = <<>> THEN ge
    ELSE ProcessMouse(FileMouse(ge, Head(genes), field, label, mh),
                      Tail(genes), field, label, mh)

\* for source_name in ['KEGG', 'Reactome', 'Hallmark']
RECURSIVE ProcessGeneral(_, _, _, _)
ProcessGeneral(ge, names, src, hm) ==
    IF names = <<>> THEN ge
    ELSE ProcessGeneral(
             ProcessHuman(ge, src[Head(names)], "general_evidence", Head(names), hm),
             Tail(names), src, hm)

\* AggregateEvidence with the GO_Anti_Mouse records added to pro_evidence
AggregateEvidenceAntiMouseAsPro(src, hm, mh) ==
    LET g1 == ProcessHuman(EmptyMap, src["GO_Pro_Human"], "pro_evidence",
                           "GO_Pro_Human", hm)
        g2 == ProcessHuman(g1, src["GO_Anti_Human"], "anti_evidence",
                           "GO_Anti_Human", hm)
        g3 == ProcessMouse(g2, src["GO_Pro_Mouse"], "pro_evidence",
                           "GO_Pro_Mouse", mh)
        g4 == ProcessMouse(g3, src["GO_Anti_Mouse"], "pro_evidence",
                           "GO_Anti_Mouse", mh)
    IN  ProcessGeneral(g4, GeneralLabels, src, hm)

\* lines 117-181; src[label] is the set sources[label] in the order it is
\* iterated
AggregateEvidence(src, hm, mh) ==
    LET g1 == ProcessHuman(EmptyMap, src["GO_Pro_Human"], "pro_evidence",
                           "GO_Pro_Human", hm)
        g2 == ProcessHuman(g1, src["GO_Anti_Human"], "anti_evidence",
                           "GO_Anti_Human", hm)
        g3 == ProcessMouse(g2, src["GO_Pro_Mouse"], "pro_evidence",
                           "GO_Pro_Mouse", mh)
        g4 == ProcessMouse(g3, src["GO_Anti_Mouse"], "anti_evidence",
                           "GO_Anti_Mouse", mh)
    IN  ProcessGeneral(g4, GeneralLabels, src, hm)

\* the order in which the loops of lines 127-181 take the sources
FilingOrder == <<"GO_Pro_Human", "GO_Anti_Human", "GO_Pro_Mouse", "GO_Anti_Mouse",
                 "KEGG", "Reactome", "Hallmark">>

\* the records <<label, gene>> in the order the loops file them
RECURSIVE FilingSequence(_, _)
FilingSequence(labels, src) ==
    IF labels = <<>> THEN <<>>
    ELSE [i \in DOMAIN src[Head(labels)] |-> <<Head(labels), src[Head(labels)][i]>>]
         \o FilingSequence(Tail(labels), src)

\* the field a source's label is added to
FieldOf(label) ==
    CASE label \in {"GO_Pro_Human", "GO_Pro_Mouse"} -> "pro_evidence"
      [] label \in {"GO_Anti_Human", "GO_Anti_Mouse"} -> "anti_evidence"
      [] OTHER -> "general_evidence"

\* the body of the loop that takes the record's source
FileRecord(ge, rec, hm, mh) ==
    IF rec[1] \in MouseLabels
    THEN FileMouse(ge, rec[2], FieldOf(rec[1]), rec[1], mh)
    ELSE FileHuman(ge, rec[2], FieldOf(rec[1]), rec[1], hm)

\* the loop bodies applied to a list of records, in the list's order
RECURSIVE FileAll(_, _, _, _)
FileAll(ge, recs, hm, mh) ==
    IF recs = <<>> THEN ge
    ELSE FileAll(FileRecord(ge, Head(recs), hm, mh), Tail(recs), hm, mh)

-----------------------------------------------------------------------------
(* Step 3: consolidate_genes, the classification and the table *)

\* Classify with the first two branches exchanged
ClassifyProFirst(evidence) ==
    LET has_pro == Cardinality(evidence.pro_evidence) > 0
        has_anti == Cardinality(evidence.anti_evidence) > 0
        has_general == Cardinality(evidence.general_evidence) > 0
    IN  IF has_pro THEN "Pro-apoptotic"
        ELSE IF has_pro /\ has_anti THEN "Ambiguous"
        ELSE IF has_anti THEN "Anti-apoptotic"
        ELSE IF has_general THEN "Unspecified"
        ELSE "Unknown"

\* the if/elif chain of lines 194-209
Classify(evidence) ==
    LET has_pro == Cardinality(evidence.pro_evidence) > 0
        has_anti == Cardinality(evidence.anti_evidence) > 0
        has_general == Cardinality(evidence.general_evidence) > 0
    IN  IF has_pro /\ has_anti THEN "Ambiguous"
        ELSE IF has_pro THEN "Pro-apoptotic"
        ELSE IF has_anti THEN "Anti-apoptotic"
        ELSE IF has_general THEN "Unspecified"
        ELSE "Unknown"

\* AllSources without the update of line 215
AllSourcesNoGeneral(evidence) ==
    evidence.pro_evidence \cup evidence.anti_evidence

\* all_sources of lines 212-215
AllSources(evidence) ==
    evidence.pro_evidence \cup evidence.anti_evidence \cup evidence.general_evidence

\* one entry of consolidated_data.  The two comma-joined columns are kept as
\* the lists that are joined: no symbol and no label contains a comma.
ConsolidatedRow(human_symbol, evidence) ==
    [human_symbol |-> human_symbol,
     mouse_symbol |-> SortedStrings(evidence.mouse_symbols),
     category |-> Classify(evidence),
     sources |-> SortedLabels(AllSources(evidence)),
     evidence_score |-> Cardinality(AllSources(evidence))]

\* CategorizeAll with a loop that stops one key short
CategorizeAllButLast(ge) ==
    [i \in 1..(Cardinality(DOMAIN ge) - 1) |->
        LET k == CHOOSE x \in DOMAIN ge : ge[x].inserted = i
        IN  ConsolidatedRow(k, ge[k])]

\* the loop of line 190 over gene_evidence.items(): one row per key, in the
\* dict's insertion order
CategorizeAll(ge) ==
    [i \in 1..Cardinality(DOMAIN ge) |->
        LET k == CHOOSE x \in DOMAIN ge : ge[x].inserted = i
        IN  ConsolidatedRow(k, ge[k])]

\* RowBefore for a sort on evidence_score alone
RowBeforeScoreOnly(r1, r2) ==
    r1.evidence_score > r2.evidence_score

\* the order of sort_values(['evidence_score', 'human_symbol'],
\* ascending=[False, True])
RowBefore(r1, r2) ==
    \/ r1.evidence_score > r2.evidence_score
    \/ /\ r1.evidence_score = r2.evidence_score
       /\ StrLess(r1.human_symbol, r2.human_symbol)

\* the row r put into the sorted list s, after the rows it does not precede
InsertRow(s, r) ==
    LET n == Cardinality({i \in DOMAIN s : ~RowBefore(r, s[i])})
    IN  SubSeq(s, 1, n) \o <<r>> \o SubSeq(s, n + 1, Len(s))

\* sort_values on several columns is a stable sort of the list of rows: rows
\* that compare equal keep the order of the list
RECURSIVE SortValues(_)
SortValues(rows) ==
    IF rows = <<>> THEN <<>>
    ELSE InsertRow(SortValues(SubSeq(rows, 1, Len(rows) - 1)), rows[Len(rows)])

-----------------------------------------------------------------------------
(* Step 3: main() *)

\* the orders in which the seven sets may yield their symbols
SetOrders(src) ==
    {[GO_Pro_Human |-> a, GO_Anti_Human |-> b, GO_Pro_Mouse |-> c,
      GO_Anti_Mouse |-> d, KEGG |-> e, Reactome |-> f, Hallmark |-> g] :
        a \in Orderings(src["GO_Pro_Human"]), b \in Orderings(src["GO_Anti_Human"]),
        c \in Orderings(src["GO_Pro_Mouse"]), d \in Orderings(src["GO_Anti_Mouse"]),
        e \in Orderings(src["KEGG"]), f \in Orderings(src["Reactome"]),
        g \in Orderings(src["Hallmark"])}

\* the source files that may be absent in a run
MaxAbsent == 1

\* which of the seven files exist: a file that holds rows exists, and at most
\* MaxAbsent files are absent
ExistChoices(files) ==
    {e \in [SourceLabels -> BOOLEAN] :
        /\ \A l \in SourceLabels : files[l] # <<>> => e[l]
        /\ Cardinality({l \in SourceLabels : ~e[l]}) <= MaxAbsent}

ConsolidationInit ==
    /\ pc = "main"
    /\ \/ /\ orthology_exists = TRUE
          /\ orthology_file \in PairTables
       \/ /\ orthology_exists = FALSE
          /\ orthology_file = <<>>
    /\ source_files \in SourceFileInputs
    /\ source_exists \in ExistChoices(source_files)
    /\ h2m = EmptyMap
    /\ m2h = EmptyMap
    /\ sources = [l \in SourceLabels |-> {}]
    /\ iteration = [l \in SourceLabels |-> <<>>]
    /\ gene_evidence = EmptyMap
    /\ consolidated_data = <<>>
    /\ df = <<>>
    /\ consolidated_csv = <<>>
    /\ summary_saved = FALSE

\* OrthologyMissing with a warning in place of sys.exit(1): the run goes on
\* to the source files
OrthologyMissingWarns ==
    /\ pc = "main"
    /\ ~orthology_exists
    /\ pc' = "load_sources"
    /\ UNCHANGED <<orthology_exists, orthology_file, source_files, source_exists,
                   h2m, m2h, sources,
                   iteration, gene_evidence, consolidated_data, df,
                   consolidated_csv, summary_saved>>
    /\ UNCHANGED outsideConsolidation

\* lines 329-331: the pair table is absent
OrthologyMissing ==
    /\ pc = "main"
    /\ ~orthology_exists
    /\ pc' = "exit1"
    /\ UNCHANGED <<orthology_exists, orthology_file, source_files, source_exists,
                   h2m, m2h, sources,
                   iteration, gene_evidence, consolidated_data, df,
                   consolidated_csv, summary_saved>>
    /\ UNCHANGED outsideConsolidation

\* line 332
LoadOrthology ==
    /\ pc = "main"
    /\ orthology_exists
    /\ LET o == load_orthology_mapping(orthology_file)
       IN  /\ h2m' = o.h2m
           /\ m2h' = o.m2h
    /\ pc' = "load_sources"
    /\ UNCHANGED <<orthology_exists, orthology_file, source_files, source_exists,
                   sources,
                   iteration, gene_evidence, consolidated_data, df,
                   consolidated_csv, summary_saved>>
    /\ UNCHANGED outsideConsolidation

\* LoadSources with an absent file taken as an error: the run exits
LoadSourcesAbsentFatal ==
    /\ pc = "load_sources"
    /\ IF \E l \in SourceLabels : ~source_exists[l]
       THEN /\ pc' = "exit1"
            /\ UNCHANGED <<sources, iteration>>
       ELSE /\ sources' = [l \in SourceLabels |-> load_source_file(source_files[l])]
            /\ iteration' \in SetOrders(sources')
            /\ pc' = "aggregate"
    /\ UNCHANGED <<orthology_exists, orthology_file, source_files, source_exists,
                   h2m, m2h, gene_evidence, consolidated_data, df, consolidated_csv,
                   summary_saved>>
    /\ UNCHANGED outsideConsolidation

\* lines 338-345: the sets are built, each with the order in which it will
\* yield its symbols; an absent file gives the empty set, with a warning
LoadSources ==
    /\ pc = "load_sources"
    /\ sources' = [l \in SourceLabels |->
                       IF source_exists[l] THEN load_source_file(source_files[l])
                       ELSE {}]
    /\ iteration' \in SetOrders(sources')
    /\ pc' = "aggregate"
    /\ UNCHANGED <<orthology_exists, orthology_file, source_files, source_exists,
                   h2m, m2h, gene_evidence, consolidated_data, df, consolidated_csv,
                   summary_saved>>
    /\ UNCHANGED outsideConsolidation

\* consolidate_genes, lines 117-181
Aggregate ==
    /\ pc = "aggregate"
    /\ gene_evidence' = AggregateEvidence(iteration, h2m, m2h)
    /\ pc' = "categorize"
    /\ UNCHANGED <<orthology_exists, orthology_file, source_files, source_exists,
                   h2m, m2h, sources,
                   iteration, consolidated_data, df, consolidated_csv, summary_saved>>
    /\ UNCHANGED outsideConsolidation

\* consolidate_genes, lines 188-233
Categorize ==
    /\ pc = "categorize"
    /\ consolidated_data' = CategorizeAll(gene_evidence)
    /\ pc' = "sort"
    /\ UNCHANGED <<orthology_exists, orthology_file, source_files, source_exists,
                   h2m, m2h, sources,
                   iteration, gene_evidence, df, consolidated_csv, summary_saved>>
    /\ UNCHANGED outsideConsolidation

\* SortTable with a sort that accepts a table without columns: the run goes on
\* and writes it
SortTableEmptyOk ==
    /\ pc = "sort"
    /\ pc' = "save"
    /\ df' = SortValues(consolidated_data)
    /\ UNCHANGED <<orthology_exists, orthology_file, source_files, source_exists,
                   h2m, m2h, sources,
                   iteration, gene_evidence, consolidated_data, consolidated_csv,
                   summary_saved>>
    /\ UNCHANGED outsideConsolidation

\* consolidate_genes, lines 236-242.  pd.DataFrame([]) has no columns, and
\* sort_values on it raises KeyError, which nothing catches.
SortTable ==
    /\ pc = "sort"
    /\ IF consolidated_data = <<>>
       THEN /\ pc' = "KeyError"
            /\ df' = df
       ELSE /\ pc' = "save"
            /\ df' = SortValues(consolidated_data)
    /\ UNCHANGED <<orthology_exists, orthology_file, source_files, source_exists,
                   h2m, m2h, sources,
                   iteration, gene_evidence, consolidated_data, consolidated_csv,
                   summary_saved>>
    /\ UNCHANGED outsideConsolidation

\* lines 351-365: the table is written, then generate_summary writes the
\* summary
SaveConsolidated ==
    /\ pc = "save"
    /\ consolidated_csv' = df
    /\ summary_saved' = TRUE
    /\ pc' = "done"
    /\ UNCHANGED <<orthology_exists, orthology_file, source_files, source_exists,
                   h2m, m2h, sources,
                   iteration, gene_evidence, consolidated_data, df>>
    /\ UNCHANGED outsideConsolidation

ConsolidationNext ==
    \/ OrthologyMissing
    \/ LoadOrthology
    \/ LoadSources
    \/ Aggregate
    \/ Categorize
    \/ SortTable
    \/ SaveConsolidated

-----------------------------------------------------------------------------
(* Step 2: the MyGene service *)

\* the taxids of species_taxid, lines 95 and 142-143
HumanTaxid == 9606
MouseTaxid == 10090

\* None in the human_entrez and mouse_entrez columns
NoEntrez == 0

MouseEntrezIds == {11, 12}
HumanEntrezIds == {21, 22}

\* the symbol the service holds for an Entrez id
EntrezSymbol(id) ==
    CASE id = 11 -> SymCq
      [] id = 12 -> SymCr
      [] id = 21 -> SymCQ
      [] id = 22 -> SymCo

\* the gene's own id, its ortholog's id and a second id of the other species
OwnId(q) ==
    CASE q = SymCQ -> 21 [] q = SymCo -> 22 [] q = SymCq -> 11 [] q = SymCr -> 12
FirstTarget(q) ==
    CASE q = SymCQ -> 11 [] q = SymCo -> 12 [] q = SymCq -> 21 [] q = SymCr -> 22
SecondTarget(q) ==
    CASE q = SymCQ -> 12 [] q = SymCo -> 11 [] q = SymCq -> 22 [] q = SymCr -> 21

\* one element of results["out"] of querymany
FoundHit(q, genes) == [query |-> q, notfound |-> FALSE, symbol |-> q, genes |-> genes]
NotFoundHit(q) == [query |-> q, notfound |-> TRUE, symbol |-> <<>>, genes |-> <<>>]

\* what querymany may answer for one symbol q of species src_taxid: not found;
\* a hit without homologene; a hit whose cluster holds one or two genes of the
\* target species; two hits for the same symbol
QueryAnswers(q, src_taxid, tgt_taxid) ==
    { <<NotFoundHit(q)>>,
      <<FoundHit(q, <<>>)>>,
      <<FoundHit(q, << <<src_taxid, OwnId(q)>>, <<tgt_taxid, FirstTarget(q)>> >>)>>,
      <<FoundHit(q, << <<src_taxid, OwnId(q)>>, <<tgt_taxid, FirstTarget(q)>>,
                       <<tgt_taxid, SecondTarget(q)>> >>)>>,
      <<FoundHit(q, << <<tgt_taxid, FirstTarget(q)>> >>),
        FoundHit(q, << <<tgt_taxid, SecondTarget(q)>> >>)>> }

\* the answers to a batch: the answers to its symbols, in the batch's order
RECURSIVE QueryManyOuts(_, _, _)
QueryManyOuts(batch, src_taxid, tgt_taxid) ==
    IF batch = <<>> THEN {<<>>}
    ELSE {a \o b : a \in QueryAnswers(Head(batch), src_taxid, tgt_taxid),
                   b \in QueryManyOuts(Tail(batch), src_taxid, tgt_taxid)}

\* what getgenes may answer for one id: a hit without "symbol", a hit with an
\* empty symbol, a hit with the gene's symbol
GetGeneAnswers(id) ==
    { [query |-> id, has_symbol |-> FALSE, symbol |-> <<>>],
      [query |-> id, has_symbol |-> TRUE, symbol |-> <<>>],
      [query |-> id, has_symbol |-> TRUE, symbol |-> EntrezSymbol(id)] }

RECURSIVE GetGenesOuts(_)
GetGenesOuts(batch) ==
    IF batch = <<>> THEN {<<>>}
    ELSE {<<a>> \o b : a \in GetGeneAnswers(Head(batch)), b \in GetGenesOuts(Tail(batch))}

\* The service's response to the call being made.  In a first run it is any
\* of the answers the service may give; in a run repeated against the same
\* responses it is the response the first run received to its call of the
\* same rank.
Responses(call, answers) ==
    IF run = 1 THEN answers
    ELSE LET k == Len(service_log) + 1
         IN  IF /\ k <= Len(first_log)
                /\ first_log[k].call = call
                /\ ~first_log[k].failed
             THEN {first_log[k].out}
             ELSE {}

\* the call being made may raise
MayFail(call) ==
    \/ run = 1
    \/ LET k == Len(service_log) + 1
       IN  /\ k <= Len(first_log)
           /\ first_log[k].call = call
           /\ first_log[k].failed

-----------------------------------------------------------------------------
(* Step 2: the batched lookups *)

Min(a, b) == IF a < b THEN a ELSE b

\* Batch with a slice that stops one item short
BatchWithoutLast(list, i, size) == SubSeq(list, i + 1, Min(i + size, Len(list)) - 1)

\* list[i:i+batch_size]
Batch(list, i, size) == SubSeq(list, i + 1, Min(i + size, Len(list)))

\* a dict that keeps insertion order, as a list of <<key, value>>
DictKeys(d) == {d[i][1] : i \in DOMAIN d}
DictGet(d, k) == d[CHOOSE i \in DOMAIN d : d[i][1] = k][2]

\* d[k] = v: a key already present keeps its place
DictPut(d, k, v) ==
    IF k \in DictKeys(d)
    THEN [i \in DOMAIN d |-> IF d[i][1] = k THEN <<k, v>> ELSE d[i]]
    ELSE Append(d, <<k, v>>)

\* lines 174-180: the ids of the target species in a cluster, in its order
RECURSIVE TargetIds(_, _)
TargetIds(cluster_genes, target_taxid) ==
    IF cluster_genes = <<>> THEN <<>>
    ELSE IF Head(cluster_genes)[1] = target_taxid
         THEN <<Head(cluster_genes)[2]>> \o TargetIds(Tail(cluster_genes), target_taxid)
         ELSE TargetIds(Tail(cluster_genes), target_taxid)

\* lines 164-183: the loop over results["out"]
RECURSIVE ProcessHits(_, _, _)
ProcessHits(out, target_taxid, acc) ==
    IF out = <<>> THEN acc
    ELSE LET hit == Head(out)
         IN  IF hit.notfound
             THEN ProcessHits(Tail(out), target_taxid, acc)
             ELSE LET target_ids == TargetIds(hit.genes, target_taxid)
                  IN  ProcessHits(Tail(out), target_taxid,
                          [orthologs |-> IF target_ids # <<>>
                                         THEN DictPut(acc.orthologs, hit.symbol, target_ids)
                                         ELSE acc.orthologs,
                           all_target_ids |-> acc.all_target_ids \cup Range(target_ids)])

\* lines 110-117: the loop over the hits of getgenes
RECURSIVE ProcessGeneHits(_, _)
ProcessGeneHits(results, id_to_symbol) ==
    IF results = <<>> THEN id_to_symbol
    ELSE LET hit == Head(results)
         IN  ProcessGeneHits(Tail(results),
                 IF hit.has_symbol
                 THEN [k \in DOMAIN id_to_symbol \cup {hit.query} |->
                          IF k = hit.query THEN hit.symbol ELSE id_to_symbol[k]]
                 ELSE id_to_symbol)

\* OffsetAfterFailure with break in place of continue: the loop ends
OffsetAfterBreak(i, size, n) == n

\* except ...: continue (lines 122-124 and 188-190): the loop goes on with the
\* next batch
OffsetAfterFailure(i, size, n) == i + size

-----------------------------------------------------------------------------
(* Step 2: build_comprehensive_mapping, phase 4 *)

\* lines 239-249
RECURSIVE ForwardRecords(_, _)
ForwardRecords(entries, id_to_symbol) ==
    IF entries = <<>> THEN <<>>
    ELSE LET human_sym == Head(entries)[1]
             mouse_ids == Head(entries)[2]
             rec[n \in 0..Len(mouse_ids)] ==
                 IF n = 0 THEN <<>>
                 ELSE LET mouse_id == mouse_ids[n]
                      IN  IF mouse_id \in DOMAIN id_to_symbol /\ id_to_symbol[mouse_id] # <<>>
                          THEN Append(rec[n - 1],
                                   [human_symbol |-> Upper(human_sym),
                                    mouse_symbol |-> id_to_symbol[mouse_id],
                                    human_entrez |-> NoEntrez,
                                    mouse_entrez |-> mouse_id,
                                    mapping_source |-> "human_to_mouse"])
                          ELSE rec[n - 1]
         IN  rec[Len(mouse_ids)] \o ForwardRecords(Tail(entries), id_to_symbol)

\* lines 252-262
RECURSIVE ReverseRecords(_, _)
ReverseRecords(entries, id_to_symbol) ==
    IF entries = <<>> THEN <<>>
    ELSE LET mouse_sym == Head(entries)[1]
             human_ids == Head(entries)[2]
             rec[n \in 0..Len(human_ids)] ==
                 IF n = 0 THEN <<>>
                 ELSE LET human_id == human_ids[n]
                      IN  IF human_id \in DOMAIN id_to_symbol /\ id_to_symbol[human_id] # <<>>
                          THEN Append(rec[n - 1],
                                   [human_symbol |-> Upper(id_to_symbol[human_id]),
                                    mouse_symbol |-> mouse_sym,
                                    human_entrez |-> human_id,
                                    mouse_entrez |-> NoEntrez,
                                    mapping_source |-> "mouse_to_human"])
                          ELSE rec[n - 1]
         IN  rec[Len(human_ids)] \o ReverseRecords(Tail(entries), id_to_symbol)

\* DedupKey with the direction tag among the compared columns
DedupKeyWithSource(r) == <<r.human_symbol, r.mouse_symbol, r.mapping_source>>

\* the columns drop_duplicates compares, line 272
DedupKey(r) == <<r.human_symbol, r.mouse_symbol>>

\* drop_duplicates(subset=..., keep="first")
RECURSIVE DropDuplicates(_, _)
DropDuplicates(records, seen) ==
    IF records = <<>> THEN <<>>
    ELSE IF DedupKey(Head(records)) \in seen
         THEN DropDuplicates(Tail(records), seen)
         ELSE <<Head(records)>>
              \o DropDuplicates(Tail(records), seen \cup {DedupKey(Head(records))})

\* sort_values(["human_symbol", "mouse_symbol"]), line 276
RECURSIVE SortPairs(_)
SortPairs(rows) ==
    IF rows = {} THEN <<>>
    ELSE LET key(r) == <<r.human_symbol, r.mouse_symbol>>
             m == CHOOSE r \in rows : \A o \in rows : ~PairLess(key(o), key(r))
         IN  <<m>> \o SortPairs(rows \ {m})

\* mapping_df[["human_symbol", "mouse_symbol"]].drop_duplicates(), line 361
RECURSIVE SimplePairs(_, _)
SimplePairs(rows, seen) ==
    IF rows = <<>> THEN <<>>
    ELSE IF DedupKey(Head(rows)) \in seen
         THEN SimplePairs(Tail(rows), seen)
         ELSE <<DedupKey(Head(rows))>>
              \o SimplePairs(Tail(rows), seen \cup {DedupKey(Head(rows))})

-----------------------------------------------------------------------------
(* Step 2: main() *)

\* the state of step 2 while it does not run
ResolverIdle ==
    /\ rpc = "idle"
    /\ human_genes = {}
    /\ mouse_genes = {}
    /\ batch_size = 1
    /\ offset = 0
    /\ unique_ids = <<>>
    /\ human_to_mouse_ids = <<>>
    /\ mouse_entrez_ids = {}
    /\ mouse_to_human_ids = <<>>
    /\ human_entrez_ids = {}
    /\ mouse_id_to_symbol = EmptyMap
    /\ human_id_to_symbol = EmptyMap
    /\ mapping_records = <<>>
    /\ mapping_df = <<>>
    /\ duplicates_removed = 0
    /\ full_csv = <<>>
    /\ simple_csv = <<>>
    /\ service_log = <<>>

\* the state of step 3 while it does not run
ConsolidationIdle ==
    /\ pc = "idle"
    /\ orthology_exists = FALSE
    /\ orthology_file = <<>>
    /\ source_files = [l \in SourceLabels |-> <<>>]
    /\ source_exists = [l \in SourceLabels |-> FALSE]
    /\ h2m = EmptyMap
    /\ m2h = EmptyMap
    /\ sources = [l \in SourceLabels |-> {}]
    /\ iteration = [l \in SourceLabels |-> <<>>]
    /\ gene_evidence = EmptyMap
    /\ consolidated_data = <<>>
    /\ df = <<>>
    /\ consolidated_csv = <<>>
    /\ summary_saved = FALSE

\* the mouse symbols the raw files of a run of step 2 may hold
ResolverMouseSymbols == {SymCq}

\* line 339: the symbols load_gene_symbols returns
ResolverInit ==
    /\ rpc = "main"
    /\ human_genes \in SUBSET HumanSourceSymbols
    /\ mouse_genes \in SUBSET ResolverMouseSymbols
    /\ batch_size \in 1..MaxBatchSize
    /\ offset = 0
    /\ unique_ids = <<>>
    /\ human_to_mouse_ids = <<>>
    /\ mouse_entrez_ids = {}
    /\ mouse_to_human_ids = <<>>
    /\ human_entrez_ids = {}
    /\ mouse_id_to_symbol = EmptyMap
    /\ human_id_to_symbol = EmptyMap
    /\ mapping_records = <<>>
    /\ mapping_df = <<>>
    /\ duplicates_removed = 0
    /\ full_csv = <<>>
    /\ simple_csv = <<>>
    /\ service_log = <<>>

\* lines 206-207
human_list == SortedStrings(human_genes)
mouse_list == SortedStrings(mouse_genes)

\* the list, the two taxids of the running fetch_homologene_mappings
FetchGenes == IF rpc = "fetch_h2m" THEN human_list ELSE mouse_list
FetchSourceTaxid == IF rpc = "fetch_h2m" THEN HumanTaxid ELSE MouseTaxid
FetchTargetTaxid == IF rpc = "fetch_h2m" THEN MouseTaxid ELSE HumanTaxid

\* lines 344-346
NoGenes ==
    /\ rpc = "main"
    /\ human_genes = {} /\ mouse_genes = {}
    /\ rpc' = "exit1"
    /\ UNCHANGED <<human_genes, mouse_genes, batch_size, offset, unique_ids,
                   human_to_mouse_ids, mouse_entrez_ids, mouse_to_human_ids,
                   human_entrez_ids, mouse_id_to_symbol, human_id_to_symbol,
                   mapping_records, mapping_df, duplicates_removed, full_csv,
                   simple_csv, service_log>>
    /\ UNCHANGED outsideResolver

\* lines 349, 204-219: build_comprehensive_mapping starts phase 1
StartMapping ==
    /\ rpc = "main"
    /\ ~(human_genes = {} /\ mouse_genes = {})
    /\ rpc' = "fetch_h2m"
    /\ offset' = 0
    /\ UNCHANGED <<human_genes, mouse_genes, batch_size, unique_ids,
                   human_to_mouse_ids, mouse_entrez_ids, mouse_to_human_ids,
                   human_entrez_ids, mouse_id_to_symbol, human_id_to_symbol,
                   mapping_records, mapping_df, duplicates_removed, full_csv,
                   simple_csv, service_log>>
    /\ UNCHANGED outsideResolver

\* fetch_homologene_mappings, lines 152-186: a batch the service answers
FetchBatchOk ==
    /\ rpc \in {"fetch_h2m", "fetch_m2h"}
    /\ offset < Len(FetchGenes)
    /\ LET batch == Batch(FetchGenes, offset, batch_size)
       IN  \E out \in Responses("querymany",
                       QueryManyOuts(batch, FetchSourceTaxid, FetchTargetTaxid)) :
               /\ service_log' = Append(service_log,
                      [call |-> "querymany", phase |-> rpc, offset |-> offset,
                       batch |-> batch, failed |-> FALSE, out |-> out])
               /\ IF rpc = "fetch_h2m"
                  THEN LET r == ProcessHits(out, FetchTargetTaxid,
                                    [orthologs |-> human_to_mouse_ids,
                                     all_target_ids |-> mouse_entrez_ids])
                       IN  /\ human_to_mouse_ids' = r.orthologs
                           /\ mouse_entrez_ids' = r.all_target_ids
                           /\ UNCHANGED <<mouse_to_human_ids, human_entrez_ids>>
                  ELSE LET r == ProcessHits(out, FetchTargetTaxid,
                                    [orthologs |-> mouse_to_human_ids,
                                     all_target_ids |-> human_entrez_ids])
                       IN  /\ mouse_to_human_ids' = r.orthologs
                           /\ human_entrez_ids' = r.all_target_ids
                           /\ UNCHANGED <<human_to_mouse_ids, mouse_entrez_ids>>
    /\ offset' = offset + batch_size
    /\ UNCHANGED <<rpc, human_genes, mouse_genes, batch_size, unique_ids,
                   mouse_id_to_symbol, human_id_to_symbol,
                   mapping_records, mapping_df, duplicates_removed, full_csv,
                   simple_csv>>
    /\ UNCHANGED outsideResolver

\* fetch_homologene_mappings, lines 188-190: querymany raises
FetchBatchFail ==
    /\ rpc \in {"fetch_h2m", "fetch_m2h"}
    /\ offset < Len(FetchGenes)
    /\ MayFail("querymany")
    /\ service_log' = Append(service_log,
           [call |-> "querymany", phase |-> rpc, offset |-> offset,
            batch |-> Batch(FetchGenes, offset, batch_size), failed |-> TRUE,
            out |-> <<>>])
    /\ offset' = OffsetAfterFailure(offset, batch_size, Len(FetchGenes))
    /\ UNCHANGED <<rpc, human_genes, mouse_genes, batch_size, unique_ids,
                   human_to_mouse_ids, mouse_entrez_ids, mouse_to_human_ids,
                   human_entrez_ids, mouse_id_to_symbol, human_id_to_symbol,
                   mapping_records, mapping_df, duplicates_removed, full_csv,
                   simple_csv>>
    /\ UNCHANGED outsideResolver

\* fetch_homologene_mappings, lines 192-193: the loop is over.  The print
\* divides by len(genes), outside any try: an empty list raises
\* ZeroDivisionError, which nothing catches.
FetchFinish ==
    /\ rpc \in {"fetch_h2m", "fetch_m2h"}
    /\ offset >= Len(FetchGenes)
    /\ rpc' = IF Len(FetchGenes) = 0 THEN "ZeroDivisionError"
              ELSE IF rpc = "fetch_h2m" THEN "fetch_m2h"
              ELSE "convert_mouse_start"
    /\ offset' = 0
    /\ UNCHANGED <<human_genes, mouse_genes, batch_size, unique_ids,
                   human_to_mouse_ids, mouse_entrez_ids, mouse_to_human_ids,
                   human_entrez_ids, mouse_id_to_symbol, human_id_to_symbol,
                   mapping_records, mapping_df, duplicates_removed, full_csv,
                   simple_csv, service_log>>
    /\ UNCHANGED outsideResolver

\* the ids the starting entrez_ids_to_symbols is given
ConvertIds == IF rpc = "convert_mouse_start" THEN mouse_entrez_ids ELSE human_entrez_ids

\* entrez_ids_to_symbols, lines 92-100: nothing to do for no ids; otherwise
\* unique_ids = list(set(entrez_ids)), in the set's order
ConvertStart ==
    /\ rpc \in {"convert_mouse_start", "convert_human_start"}
    /\ IF ConvertIds = {}
       THEN /\ rpc' = IF rpc = "convert_mouse_start" THEN "convert_human_start"
                      ELSE "build"
            /\ unique_ids' = <<>>
       ELSE /\ rpc' = IF rpc = "convert_mouse_start" THEN "convert_mouse"
                      ELSE "convert_human"
            /\ unique_ids' \in Orderings(ConvertIds)
    /\ offset' = 0
    /\ UNCHANGED <<human_genes, mouse_genes, batch_size,
                   human_to_mouse_ids, mouse_entrez_ids, mouse_to_human_ids,
                   human_entrez_ids, mouse_id_to_symbol, human_id_to_symbol,
                   mapping_records, mapping_df, duplicates_removed, full_csv,
                   simple_csv, service_log>>
    /\ UNCHANGED outsideResolver

\* entrez_ids_to_symbols, lines 104-120: a batch the service answers
ConvertBatchOk ==
    /\ rpc \in {"convert_mouse", "convert_human"}
    /\ offset < Len(unique_ids)
    /\ LET batch == Batch(unique_ids, offset, batch_size)
       IN  \E results \in Responses("getgenes", GetGenesOuts(batch)) :
               /\ service_log' = Append(service_log,
                      [call |-> "getgenes", phase |-> rpc, offset |-> offset,
                       batch |-> batch, failed |-> FALSE, out |-> results])
               /\ IF rpc = "convert_mouse"
                  THEN /\ mouse_id_to_symbol' = ProcessGeneHits(results, mouse_id_to_symbol)
                       /\ UNCHANGED human_id_to_symbol
                  ELSE /\ human_id_to_symbol' = ProcessGeneHits(results, human_id_to_symbol)
                       /\ UNCHANGED mouse_id_to_symbol
    /\ offset' = offset + batch_size
    /\ UNCHANGED <<rpc, human_genes, mouse_genes, batch_size, unique_ids,
                   human_to_mouse_ids, mouse_entrez_ids, mouse_to_human_ids,
                   human_entrez_ids,
                   mapping_records, mapping_df, duplicates_removed, full_csv,
                   simple_csv>>
    /\ UNCHANGED outsideResolver

\* entrez_ids_to_symbols, lines 122-124: getgenes raises
ConvertBatchFail ==
    /\ rpc \in {"convert_mouse", "convert_human"}
    /\ offset < Len(unique_ids)
    /\ MayFail("getgenes")
    /\ service_log' = Append(service_log,
           [call |-> "getgenes", phase |-> rpc, offset |-> offset,
            batch |-> Batch(unique_ids, offset, batch_size), failed |-> TRUE,
            out |-> <<>>])
    /\ offset' = OffsetAfterFailure(offset, batch_size, Len(unique_ids))
    /\ UNCHANGED <<rpc, human_genes, mouse_genes, batch_size, unique_ids,
                   human_to_mouse_ids, mouse_entrez_ids, mouse_to_human_ids,
                   human_entrez_ids, mouse_id_to_symbol, human_id_to_symbol,
                   mapping_records, mapping_df, duplicates_removed, full_csv,
                   simple_csv>>
    /\ UNCHANGED outsideResolver

\* entrez_ids_to_symbols, lines 126-127
ConvertFinish ==
    /\ rpc \in {"convert_mouse", "convert_human"}
    /\ offset >= Len(unique_ids)
    /\ rpc' = IF rpc = "convert_mouse" THEN "convert_human_start" ELSE "build"
    /\ offset' = 0
    /\ UNCHANGED <<human_genes, mouse_genes, batch_size, unique_ids,
                   human_to_mouse_ids, mouse_entrez_ids, mouse_to_human_ids,
                   human_entrez_ids, mouse_id_to_symbol, human_id_to_symbol,
                   mapping_records, mapping_df, duplicates_removed, full_csv,
                   simple_csv, service_log>>
    /\ UNCHANGED outsideResolver

\* build_comprehensive_mapping, lines 236-279, and main, lines 351-353: no
\* record gives an empty table, on which main exits with status 1
BuildMapping ==
    /\ rpc = "build"
    /\ LET records == ForwardRecords(human_to_mouse_ids, mouse_id_to_symbol)
                      \o ReverseRecords(mouse_to_human_ids, human_id_to_symbol)
           kept == DropDuplicates(records, {})
       IN  /\ mapping_records' = records
           /\ IF Len(records) = 0
              THEN /\ mapping_df' = <<>>
                   /\ duplicates_removed' = duplicates_removed
                   /\ rpc' = "exit1"
              ELSE /\ mapping_df' = SortPairs(Range(kept))
                   /\ duplicates_removed' = Len(records) - Len(kept)
                   /\ rpc' = "save"
    /\ UNCHANGED <<human_genes, mouse_genes, batch_size, offset, unique_ids,
                   human_to_mouse_ids, mouse_entrez_ids, mouse_to_human_ids,
                   human_entrez_ids, mouse_id_to_symbol, human_id_to_symbol,
                   full_csv, simple_csv, service_log>>
    /\ UNCHANGED outsideResolver

\* main, lines 355-375
SaveMapping ==
    /\ rpc = "save"
    /\ full_csv' = mapping_df
    /\ simple_csv' = SimplePairs(mapping_df, {})
    /\ rpc' = "done"
    /\ UNCHANGED <<human_genes, mouse_genes, batch_size, offset, unique_ids,
                   human_to_mouse_ids, mouse_entrez_ids, mouse_to_human_ids,
                   human_entrez_ids, mouse_id_to_symbol, human_id_to_symbol,
                   mapping_records, mapping_df, duplicates_removed, service_log>>
    /\ UNCHANGED outsideResolver

ResolverNext ==
    \/ NoGenes
    \/ StartMapping
    \/ FetchBatchOk
    \/ FetchBatchFail
    \/ FetchFinish
    \/ ConvertStart
    \/ ConvertBatchOk
    \/ ConvertBatchFail
    \/ ConvertFinish
    \/ BuildMapping
    \/ SaveMapping

-----------------------------------------------------------------------------
(* The tables that pass from one step to the next *)

\* the tables step 3 can write: one for each pair table, each content of the
\* source files and each iteration order of the sets
ConsolidatedTables ==
    UNION {UNION {{SortValues(CategorizeAll(AggregateEvidence(it,
                        load_orthology_mapping(t).h2m, load_orthology_mapping(t).m2h)))
                   : it \in SetOrders([l \in SourceLabels |-> load_source_file(f[l])])}
                  : f \in SourceFileInputs}
           : t \in PairTables} \ {<<>>}

-----------------------------------------------------------------------------
(* Step 4: the Ensembl lookup *)

\* ','.join(...) of lines 219 and 225 of step 3: the text of a joined column
Comma == <<44>>

RECURSIVE JoinText(_, _)
JoinText(parts, sep) ==
    IF parts = <<>> THEN <<>>
    ELSE IF Len(parts) = 1 THEN parts[1]
    ELSE parts[1] \o sep \o JoinText(Tail(parts), sep)

\* the text of the mouse_symbol column of a row
MouseText(r) == JoinText(r.mouse_symbol, Comma)

\* line 55: pd.notna(s) and s.strip() != ''.  read_csv reads an empty field as
\* NaN; str.strip() removes the code points 9 to 13 and 32.
IsValidSymbol(s) == s # <<>> /\ \E i \in DOMAIN s : s[i] \notin (9..13) \cup {32}

\* line 55
ValidSymbols(gene_symbols) == SelectSeq(gene_symbols, IsValidSymbol)

\* no Ensembl id: None in a hit, NaN in a column
NoEnsembl == 0

\* the hits the service may return for one queried term: no ensembl field,
\* one gene, or a list of genes
EnsemblAnswers(q) ==
    {[query |-> q, kind |-> "none", genes |-> <<>>],
     [query |-> q, kind |-> "dict", genes |-> <<1>>],
     [query |-> q, kind |-> "list", genes |-> <<2, 1>>]}

\* the lists results['out'] may be for a batch: one hit for each term
RECURSIVE EnsemblOuts(_)
EnsemblOuts(batch) ==
    IF batch = <<>> THEN {<<>>}
    ELSE {<<h>> \o rest : h \in EnsemblAnswers(Head(batch)),
                          rest \in EnsemblOuts(Tail(batch))}

\* lines 83-91: the gene id of a hit
GeneIdOf(hit) ==
    IF hit.kind = "none" THEN NoEnsembl ELSE hit.genes[1]

\* lines 81-94: the hits of a batch entered into symbol_to_ensembl
RECURSIVE ProcessEnsemblHits(_, _)
ProcessEnsemblHits(out, acc) ==
    IF out = <<>> THEN acc
    ELSE LET hit == Head(out)
             gene_id == GeneIdOf(hit)
         IN  ProcessEnsemblHits(Tail(out),
                 IF gene_id # NoEnsembl THEN DictPut(acc, hit.query, gene_id)
                 ELSE acc)

\* Series.map(dict): the value of the key, NaN for a key the dict lacks
MapGet(d, k) == IF k \in DictKeys(d) THEN DictGet(d, k) ELSE NoEnsembl

\* lines 210-211 and 226-235: the two id columns added, the columns in their
\* final order
FinalRow(r, human_map, mouse_map) ==
    [human_symbol |-> r.human_symbol,
     human_ensembl_id |-> MapGet(human_map, r.human_symbol),
     mouse_symbol |-> r.mouse_symbol,
     mouse_ensembl_id |-> MapGet(mouse_map, MouseText(r)),
     category |-> r.category,
     sources |-> r.sources,
     evidence_score |-> r.evidence_score]

\* MergeIds as a merge that keeps only the rows with a mouse symbol
MergeIdsMouseOnly(rows, human_map, mouse_map) ==
    LET kept == SelectSeq(rows, LAMBDA r : r.mouse_symbol # <<>>)
    IN  [i \in DOMAIN kept |-> FinalRow(kept[i], human_map, mouse_map)]

MergeIds(rows, human_map, mouse_map) ==
    [i \in DOMAIN rows |-> FinalRow(rows[i], human_map, mouse_map)]

\* Coverage with Python integers: a division by zero raises ZeroDivisionError
CoveragePythonInts(mapped, total) ==
    [raised |-> total = 0,
     nan |-> FALSE,
     percent |-> IF total = 0 THEN 0 ELSE (100 * mapped) \div total]

\* lines 222-223: 100*mapped/total.  mapped is a numpy integer (the result of
\* Series.sum()), so that a division by zero gives nan and raises nothing.
Coverage(mapped, total) ==
    [raised |-> FALSE,
     nan |-> total = 0,
     percent |-> IF total = 0 THEN 0 ELSE (100 * mapped) \div total]

-----------------------------------------------------------------------------
(* Step 4: main() *)

\* the rows of the largest table a run of step 4 is given
MaxAnnotated == 2

\* the state of step 4 while it does not run, the final table apart
AnnotatorAtRest ==
    /\ apc = "idle"
    /\ annot_df = <<>>
    /\ annot_batch_size = 1
    /\ annot_offset = 0
    /\ valid_symbols = <<>>
    /\ symbol_to_ensembl = <<>>
    /\ human_ensembl_map = <<>>
    /\ mouse_ensembl_map = <<>>
    /\ annot_log = <<>>
    /\ coverage = <<>>

AnnotatorIdle ==
    /\ AnnotatorAtRest
    /\ final_csv = <<>>

\* the state of step 3 once it has written a table and ended
ConsolidationOver ==
    /\ pc = "idle"
    /\ orthology_exists = FALSE
    /\ orthology_file = <<>>
    /\ source_files = [l \in SourceLabels |-> <<>>]
    /\ source_exists = [l \in SourceLabels |-> FALSE]
    /\ h2m = EmptyMap
    /\ m2h = EmptyMap
    /\ sources = [l \in SourceLabels |-> {}]
    /\ iteration = [l \in SourceLabels |-> <<>>]
    /\ gene_evidence = EmptyMap
    /\ consolidated_data = <<>>
    /\ df = <<>>
    /\ consolidated_csv \in {t \in ConsolidatedTables : Len(t) <= MaxAnnotated}
    /\ summary_saved = TRUE

AnnotatorInit ==
    /\ apc = "main"
    /\ annot_df = <<>>
    /\ annot_batch_size \in 1..MaxBatchSize
    /\ annot_offset = 0
    /\ valid_symbols = <<>>
    /\ symbol_to_ensembl = <<>>
    /\ human_ensembl_map = <<>>
    /\ mouse_ensembl_map = <<>>
    /\ annot_log = <<>>
    /\ coverage = <<>>
    /\ final_csv = <<>>

\* line 191
LoadConsolidated ==
    /\ apc = "main"
    /\ annot_df' = consolidated_csv
    /\ apc' = "human_start"
    /\ UNCHANGED <<annot_batch_size, annot_offset, valid_symbols, symbol_to_ensembl,
                   human_ensembl_map, mouse_ensembl_map, annot_log, coverage,
                   final_csv>>
    /\ UNCHANGED outsideAnnotator

\* the species of the lookup main() is in
Species == IF apc \in {"human_start", "human_batch"} THEN "human" ELSE "mouse"

\* lines 201 and 205: the column given to the lookup
SymbolColumn ==
    IF Species = "human"
    THEN [i \in DOMAIN annot_df |-> annot_df[i].human_symbol]
    ELSE [i \in DOMAIN annot_df |-> MouseText(annot_df[i])]

\* lines 55-58: a lookup with no valid symbol returns {} at once
LookupEmpty ==
    /\ apc \in {"human_start", "mouse_start"}
    /\ ValidSymbols(SymbolColumn) = <<>>
    /\ IF Species = "human"
       THEN /\ human_ensembl_map' = <<>>
            /\ mouse_ensembl_map' = mouse_ensembl_map
            /\ apc' = "mouse_start"
       ELSE /\ mouse_ensembl_map' = <<>>
            /\ human_ensembl_map' = human_ensembl_map
            /\ apc' = "merge"
    /\ UNCHANGED <<annot_df, annot_batch_size, annot_offset, valid_symbols,
                   symbol_to_ensembl, annot_log, coverage, final_csv>>
    /\ UNCHANGED outsideAnnotator

\* lines 55-64
LookupStart ==
    /\ apc \in {"human_start", "mouse_start"}
    /\ ValidSymbols(SymbolColumn) # <<>>
    /\ valid_symbols' = ValidSymbols(SymbolColumn)
    /\ symbol_to_ensembl' = <<>>
    /\ annot_offset' = 0
    /\ apc' = IF Species = "human" THEN "human_batch" ELSE "mouse_batch"
    /\ UNCHANGED <<annot_df, annot_batch_size, human_ensembl_map, mouse_ensembl_map,
                   annot_log, coverage, final_csv>>
    /\ UNCHANGED outsideAnnotator

\* lines 66-98: a batch the service answers
LookupBatchOk ==
    /\ apc \in {"human_batch", "mouse_batch"}
    /\ annot_offset < Len(valid_symbols)
    /\ LET batch == Batch(valid_symbols, annot_offset, annot_batch_size)
       IN  \E out \in EnsemblOuts(batch) :
               /\ symbol_to_ensembl' = ProcessEnsemblHits(out, symbol_to_ensembl)
               /\ annot_log' = Append(annot_log,
                      [species |-> Species, batch |-> batch, failed |-> FALSE,
                       out |-> out])
    /\ annot_offset' = annot_offset + annot_batch_size
    /\ UNCHANGED <<apc, annot_df, annot_batch_size, valid_symbols, human_ensembl_map,
                   mouse_ensembl_map, coverage, final_csv>>
    /\ UNCHANGED outsideAnnotator

\* lines 100-102: querymany raises, the batch is skipped
LookupBatchFail ==
    /\ apc \in {"human_batch", "mouse_batch"}
    /\ annot_offset < Len(valid_symbols)
    /\ annot_log' = Append(annot_log,
           [species |-> Species,
            batch |-> Batch(valid_symbols, annot_offset, annot_batch_size),
            failed |-> TRUE, out |-> <<>>])
    /\ annot_offset' = annot_offset + annot_batch_size
    /\ UNCHANGED <<apc, annot_df, annot_batch_size, valid_symbols, symbol_to_ensembl,
                   human_ensembl_map, mouse_ensembl_map, coverage, final_csv>>
    /\ UNCHANGED outsideAnnotator

\* lines 104-108: the loop is over, the dict is returned
LookupFinish ==
    /\ apc \in {"human_batch", "mouse_batch"}
    /\ annot_offset >= Len(valid_symbols)
    /\ IF Species = "human"
       THEN /\ human_ensembl_map' = symbol_to_ensembl
            /\ mouse_ensembl_map' = mouse_ensembl_map
            /\ apc' = "mouse_start"
       ELSE /\ mouse_ensembl_map' = symbol_to_ensembl
            /\ human_ensembl_map' = human_ensembl_map
            /\ apc' = "merge"
    /\ UNCHANGED <<annot_df, annot_batch_size, annot_offset, valid_symbols,
                   symbol_to_ensembl, annot_log, coverage, final_csv>>
    /\ UNCHANGED outsideAnnotator

\* lines 210-211
MergeEnsemblIds ==
    /\ apc = "merge"
    /\ annot_df' = MergeIds(annot_df, human_ensembl_map, mouse_ensembl_map)
    /\ apc' = "coverage"
    /\ UNCHANGED <<annot_batch_size, annot_offset, valid_symbols, symbol_to_ensembl,
                   human_ensembl_map, mouse_ensembl_map, annot_log, coverage,
                   final_csv>>
    /\ UNCHANGED outsideAnnotator

\* lines 214-223
CoverageSummary ==
    /\ apc = "coverage"
    /\ LET human_with_id ==
               Cardinality({i \in DOMAIN annot_df :
                                annot_df[i].human_ensembl_id # NoEnsembl})
           mouse_with_id ==
               Cardinality({i \in DOMAIN annot_df :
                                /\ annot_df[i].mouse_symbol # <<>>
                                /\ annot_df[i].mouse_ensembl_id # NoEnsembl})
           total_mouse_valid ==
               Cardinality({i \in DOMAIN annot_df : annot_df[i].mouse_symbol # <<>>})
           human == Coverage(human_with_id, Len(annot_df))
           mouse == Coverage(mouse_with_id, total_mouse_valid)
       IN  /\ coverage' = <<[mapped |-> human_with_id, total |-> Len(annot_df),
                             nan |-> human.nan, percent |-> human.percent],
                            [mapped |-> mouse_with_id, total |-> total_mouse_valid,
                             nan |-> mouse.nan, percent |-> mouse.percent]>>
           /\ apc' = IF human.raised \/ mouse.raised THEN "ZeroDivisionError"
                     ELSE "save"
    /\ UNCHANGED <<annot_df, annot_batch_size, annot_offset, valid_symbols,
                   symbol_to_ensembl, human_ensembl_map, mouse_ensembl_map, annot_log,
                   final_csv>>
    /\ UNCHANGED outsideAnnotator

\* lines 226-240
SaveFinal ==
    /\ apc = "save"
    /\ final_csv' = annot_df
    /\ apc' = "visualize"
    /\ UNCHANGED <<annot_df, annot_batch_size, annot_offset, valid_symbols,
                   symbol_to_ensembl, human_ensembl_map, mouse_ensembl_map, annot_log,
                   coverage>>
    /\ UNCHANGED outsideAnnotator

\* lines 243-261: the figure and the final summary
Visualize ==
    /\ apc = "visualize"
    /\ apc' = "done"
    /\ UNCHANGED <<annot_df, annot_batch_size, annot_offset, valid_symbols,
                   symbol_to_ensembl, human_ensembl_map, mouse_ensembl_map, annot_log,
                   coverage, final_csv>>
    /\ UNCHANGED outsideAnnotator

AnnotatorNext ==
    \/ LoadConsolidated
    \/ LookupEmpty
    \/ LookupStart
    \/ LookupBatchOk
    \/ LookupBatchFail
    \/ LookupFinish
    \/ MergeEnsemblIds
    \/ CoverageSummary
    \/ SaveFinal
    \/ Visualize

-----------------------------------------------------------------------------
(* Step 5: the breakdown of the final table by source *)

\* the text of a source label
LabelText(l) ==
    CASE l = "GO_Pro_Human" -> <<71, 79, 95, 80, 114, 111, 95, 72, 117, 109, 97, 110>>
      [] l = "GO_Anti_Human" ->
             <<71, 79, 95, 65, 110, 116, 105, 95, 72, 117, 109, 97, 110>>
      [] l = "GO_Pro_Mouse" -> <<71, 79, 95, 80, 114, 111, 95, 77, 111, 117, 115, 101>>
      [] l = "GO_Anti_Mouse" ->
             <<71, 79, 95, 65, 110, 116, 105, 95, 77, 111, 117, 115, 101>>
      [] l = "KEGG" -> <<75, 69, 71, 71>>
      [] l = "Reactome" -> <<82, 101, 97, 99, 116, 111, 109, 101>>
      [] l = "Hallmark" -> <<72, 97, 108, 108, 109, 97, 114, 107>>

\* the text of the sources column of a row: the labels joined by commas
SourcesText(r) == JoinText([i \in DOMAIN r.sources |-> LabelText(r.sources[i])], Comma)

\* SOURCE_PATTERNS with a GO pattern that matches the human GO labels only
SOURCE_PATTERNS_HumanGO ==
    << <<"KEGG", <<75, 69, 71, 71>> >>,
       <<"Reactome", <<82, 101, 97, 99, 116, 111, 109, 101>> >>,
       <<"Hallmark", <<72, 97, 108, 108, 109, 97, 114, 107>> >>,
       <<"GO", <<95, 72, 117, 109, 97, 110>> >> >>

\* lines 26-31, in the order of the dict: <<label, pattern>>
SOURCE_PATTERNS ==
    << <<"KEGG", <<75, 69, 71, 71>> >>,
       <<"Reactome", <<82, 101, 97, 99, 116, 111, 109, 101>> >>,
       <<"Hallmark", <<72, 97, 108, 108, 109, 97, 114, 107>> >>,
       <<"GO", <<71, 79, 95>> >> >>

\* line 34
CATEGORY_ORDER == <<"Pro-apoptotic", "Anti-apoptotic", "Ambiguous", "Unspecified">>

\* StrContains for a pattern that must open the text
StrStartsWith(text, pat) ==
    /\ Len(pat) <= Len(text)
    /\ SubSeq(text, 1, Len(pat)) = pat

\* str.contains(pattern) for a pattern without regex metacharacters: the
\* pattern occurs somewhere in the text
StrContains(text, pat) ==
    \E i \in 1..(Len(text) - Len(pat) + 1) : SubSeq(text, i, i + Len(pat) - 1) = pat

\* lines 64-65: the rows whose sources text contains the pattern, in the
\* order of the table, as a new table
filter_by_source(frame, pattern) ==
    SelectSeq(frame, LAMBDA r : StrContains(SourcesText(r), pattern))

\* add_category_stats without the count of the last category
add_category_stats_three(frame) ==
    [counts |-> [c \in DOMAIN CATEGORY_ORDER |->
                    IF c = Len(CATEGORY_ORDER) THEN 0
                    ELSE Len(SelectSeq(frame,
                             LAMBDA r : r.category = CATEGORY_ORDER[c]))],
     Total |-> Len(frame)]

\* lines 70-77: the count of each category of CATEGORY_ORDER, and the total
add_category_stats(frame) ==
    [counts |-> [c \in DOMAIN CATEGORY_ORDER |->
                    Len(SelectSeq(frame, LAMBDA r : r.category = CATEGORY_ORDER[c]))],
     Total |-> Len(frame)]

\* the code pd.Categorical gives a value: its rank in CATEGORY_ORDER, 0 (NaN)
\* for a value that is not a category
CategoryCode(category) ==
    IF \E c \in DOMAIN CATEGORY_ORDER : CATEGORY_ORDER[c] = category
    THEN CHOOSE c \in DOMAIN CATEGORY_ORDER : CATEGORY_ORDER[c] = category
    ELSE 0

\* lines 83-87: the category column made categorical.  A value that is not a
\* category becomes NaN, which to_csv writes as an empty field.
AsCategorical(r) ==
    [r EXCEPT !.category = IF CategoryCode(r.category) = 0 THEN "" ELSE r.category]

\* BreakdownBefore with the categories in alphabetical order
BreakdownBeforeAlphabetical(r1, r2) ==
    LET Alpha(c) == CASE c = "Ambiguous" -> 1
                      [] c = "Anti-apoptotic" -> 2
                      [] c = "Pro-apoptotic" -> 3
                      [] c = "Unspecified" -> 4
                      [] OTHER -> 5
    IN  \/ Alpha(r1.category) < Alpha(r2.category)
        \/ /\ Alpha(r1.category) = Alpha(r2.category)
           /\ StrLess(r1.human_symbol, r2.human_symbol)

\* the order of sort_values(['category', 'human_symbol']): the categories by
\* their codes with NaN last, then the symbols by code points
BreakdownBefore(r1, r2) ==
    LET Code(r) == IF CategoryCode(r.category) = 0 THEN Len(CATEGORY_ORDER) + 1
                   ELSE CategoryCode(r.category)
    IN  \/ Code(r1) < Code(r2)
        \/ /\ Code(r1) = Code(r2)
           /\ StrLess(r1.human_symbol, r2.human_symbol)

\* the row r put into the sorted list s, after the rows it does not precede
InsertBreakdownRow(s, r) ==
    LET n == Cardinality({i \in DOMAIN s : ~BreakdownBefore(r, s[i])})
    IN  SubSeq(s, 1, n) \o <<r>> \o SubSeq(s, n + 1, Len(s))

RECURSIVE SortBreakdown(_)
SortBreakdown(rows) ==
    IF rows = <<>> THEN <<>>
    ELSE InsertBreakdownRow(SortBreakdown(SubSeq(rows, 1, Len(rows) - 1)),
                            rows[Len(rows)])

\* lines 80-90: the rows sorted; reset_index numbers them anew
sort_by_category(frame) ==
    SortBreakdown([i \in DOMAIN frame |-> AsCategorical(frame[i])])

-----------------------------------------------------------------------------
(* Step 5: main() *)

\* the dict a lookup of step 4 returns when every valid symbol is given an id
RECURSIVE AllIds(_)
AllIds(column) ==
    IF column = <<>> THEN <<>>
    ELSE LET rest == AllIds(SubSeq(column, 1, Len(column) - 1))
             s == column[Len(column)]
         IN  IF IsValidSymbol(s) THEN DictPut(rest, s, 1) ELSE rest

\* the final tables step 4 can write: for each species, the lookup returned
\* {} or gave every valid symbol an id
FinalTables ==
    UNION {{MergeIds(t, hm, mm) :
                hm \in {<<>>, AllIds([i \in DOMAIN t |-> t[i].human_symbol])},
                mm \in {<<>>, AllIds([i \in DOMAIN t |-> MouseText(t[i])])}}
           : t \in ConsolidatedTables}

\* the state of step 5 while it does not run
BreakdownIdle ==
    /\ bpc = "idle"
    /\ breakdown_df = <<>>
    /\ label_at = 1
    /\ all_stats = <<>>
    /\ breakdown_csv = <<>>
    /\ breakdown_summary = <<>>

\* the state of step 4 once it has written a final table and ended
AnnotatorOver ==
    /\ AnnotatorAtRest
    /\ final_csv \in FinalTables

BreakdownInit ==
    /\ bpc = "main"
    /\ breakdown_df = <<>>
    /\ label_at = 1
    /\ all_stats = <<>>
    /\ breakdown_csv = <<>>
    /\ breakdown_summary = <<>>

\* line 167: load_gene_list
LoadGeneList ==
    /\ bpc = "main"
    /\ breakdown_df' = final_csv
    /\ bpc' = "filter"
    /\ UNCHANGED <<label_at, all_stats, breakdown_csv, breakdown_summary>>
    /\ UNCHANGED outsideBreakdown

\* ProcessSource with the filtered table bound to df
ProcessSourceRebinding ==
    /\ bpc = "filter"
    /\ label_at <= Len(SOURCE_PATTERNS)
    /\ LET source_name == SOURCE_PATTERNS[label_at][1]
           pattern == SOURCE_PATTERNS[label_at][2]
           df_source == filter_by_source(breakdown_df, pattern)
           stats == add_category_stats(df_source)
       IN  /\ all_stats' = DictPut(all_stats, source_name, stats)
           /\ breakdown_csv' =
                  DictPut(breakdown_csv, source_name, sort_by_category(df_source))
           /\ breakdown_df' = df_source
    /\ label_at' = label_at + 1
    /\ UNCHANGED <<bpc, breakdown_summary>>
    /\ UNCHANGED outsideBreakdown

\* lines 174-191: one turn of the loop over SOURCE_PATTERNS.  The filtered
\* table is a copy: sort_by_category, which assigns to a column of its
\* argument, leaves df as it was loaded.
ProcessSource ==
    /\ bpc = "filter"
    /\ label_at <= Len(SOURCE_PATTERNS)
    /\ LET source_name == SOURCE_PATTERNS[label_at][1]
           pattern == SOURCE_PATTERNS[label_at][2]
           df_source == filter_by_source(breakdown_df, pattern)
           stats == add_category_stats(df_source)
       IN  /\ all_stats' = DictPut(all_stats, source_name, stats)
           /\ breakdown_csv' =
                  DictPut(breakdown_csv, source_name, sort_by_category(df_source))
    /\ label_at' = label_at + 1
    /\ UNCHANGED <<bpc, breakdown_df, breakdown_summary>>
    /\ UNCHANGED outsideBreakdown

\* lines 195-212: the loop is over, the summary report is written
GenerateSummary ==
    /\ bpc = "filter"
    /\ label_at > Len(SOURCE_PATTERNS)
    /\ breakdown_summary' = all_stats
    /\ bpc' = "done"
    /\ UNCHANGED <<breakdown_df, label_at, all_stats, breakdown_csv>>
    /\ UNCHANGED outsideBreakdown

BreakdownNext ==
    \/ LoadGeneList
    \/ ProcessSource
    \/ GenerateSummary

-----------------------------------------------------------------------------
(* A run repeated on the same inputs *)

NoOutcome == [status |-> "none", table |-> <<>>, simple |-> <<>>]

\* a first run
FirstRun ==
    /\ run = 1
    /\ first_log = <<>>
    /\ first_outcome = NoOutcome

\* how a run of step 2 ended, and the two files it wrote
ResolverOutcome == [status |-> rpc, table |-> full_csv, simple |-> simple_csv]

\* how a run of step 3 ended, and the file it wrote
ConsolidationOutcome == [status |-> pc, table |-> consolidated_csv, simple |-> <<>>]

\* step 2 is run again on the same raw files: a new process, whose sets have
\* their own iteration order, which receives the responses of the first run
RerunResolver ==
    /\ run = 1
    /\ rpc \in {"done", "exit1", "ZeroDivisionError"}
    /\ run' = 2
    /\ first_log' = service_log
    /\ first_outcome' = ResolverOutcome
    /\ rpc' = "main"
    /\ offset' = 0
    /\ unique_ids' = <<>>
    /\ human_to_mouse_ids' = <<>>
    /\ mouse_entrez_ids' = {}
    /\ mouse_to_human_ids' = <<>>
    /\ human_entrez_ids' = {}
    /\ mouse_id_to_symbol' = EmptyMap
    /\ human_id_to_symbol' = EmptyMap
    /\ mapping_records' = <<>>
    /\ mapping_df' = <<>>
    /\ duplicates_removed' = 0
    /\ full_csv' = <<>>
    /\ simple_csv' = <<>>
    /\ service_log' = <<>>
    /\ UNCHANGED <<human_genes, mouse_genes, batch_size>>
    /\ UNCHANGED <<consolidationVars, annotatorVars, breakdownVars>>

\* step 3 is run again on the same files
RerunConsolidation ==
    /\ run = 1
    /\ pc \in {"done", "exit1", "KeyError"}
    /\ run' = 2
    /\ first_log' = first_log
    /\ first_outcome' = ConsolidationOutcome
    /\ pc' = "main"
    /\ h2m' = EmptyMap
    /\ m2h' = EmptyMap
    /\ sources' = [l \in SourceLabels |-> {}]
    /\ iteration' = [l \in SourceLabels |-> <<>>]
    /\ gene_evidence' = EmptyMap
    /\ consolidated_data' = <<>>
    /\ df' = <<>>
    /\ consolidated_csv' = <<>>
    /\ summary_saved' = FALSE
    /\ UNCHANGED <<orthology_exists, orthology_file, source_files, source_exists>>
    /\ UNCHANGED <<resolverVars, annotatorVars, breakdownVars>>

-----------------------------------------------------------------------------
(* The specifications *)

\* one run of step 3
Init == ConsolidationInit /\ ResolverIdle /\ AnnotatorIdle /\ BreakdownIdle /\ FirstRun

Next == ConsolidationNext

Spec == Init /\ [][Next]_vars

\* one run of step 2
InitResolver ==
    ResolverInit /\ ConsolidationIdle /\ AnnotatorIdle /\ BreakdownIdle /\ FirstRun

NextResolver == ResolverNext

SpecResolver == InitResolver /\ [][NextResolver]_vars

\* a run of step 2 or of step 3, and the same run once more
InitRerun == Init \/ InitResolver

NextRerun ==
    \/ ConsolidationNext
    \/ ResolverNext
    \/ RerunConsolidation
    \/ RerunResolver

SpecRerun == InitRerun /\ [][NextRerun]_vars

\* one run of step 4, on a table step 3 wrote
InitAnnotator == AnnotatorInit /\ ConsolidationOver /\ ResolverIdle /\ BreakdownIdle /\ FirstRun

SpecAnnotator == InitAnnotator /\ [][AnnotatorNext]_vars

\* a run of step 2 or a run of step 4: the batched lookups of the pipeline
SpecBatching == (InitResolver \/ InitAnnotator) /\ [][ResolverNext \/ AnnotatorNext]_vars

\* one run of step 5, on a final table step 4 wrote
InitBreakdown ==
    BreakdownInit /\ ConsolidationIdle /\ ResolverIdle /\ AnnotatorOver /\ FirstRun

SpecBreakdown == InitBreakdown /\ [][BreakdownNext]_vars

-----------------------------------------------------------------------------
(* Properties of step 3 *)

\* consolidate_genes has returned its table
DfReady == pc \in {"save", "done"}

\* the aggregation loops of consolidate_genes have run
Aggregated == pc \in {"categorize", "sort", "save", "done", "KeyError"}

FourCategories == {"Pro-apoptotic", "Anti-apoptotic", "Ambiguous", "Unspecified"}

\* C1: every row's category follows the precedence on its gene's evidence:
\* pro and anti give Ambiguous, pro alone Pro-apoptotic, anti alone
\* Anti-apoptotic, general alone Unspecified; general evidence plays no part
\* when pro or anti is present.
C1_ClassificationPrecedence ==
    DfReady =>
        \A i \in DOMAIN df :
            LET e == gene_evidence[df[i].human_symbol]
                pro == e.pro_evidence # {}
                anti == e.anti_evidence # {}
                general == e.general_evidence # {}
            IN  /\ (pro /\ anti) => df[i].category = "Ambiguous"
                /\ (pro /\ ~anti) => df[i].category = "Pro-apoptotic"
                /\ (anti /\ ~pro) => df[i].category = "Anti-apoptotic"
                /\ (~pro /\ ~anti /\ general) => df[i].category = "Unspecified"

\* a finished run with an Ambiguous gene that also has general evidence
C1_Witness ==
    /\ pc = "done"
    /\ \E i \in DOMAIN df :
           /\ df[i].category = "Ambiguous"
           /\ gene_evidence[df[i].human_symbol].general_evidence # {}

\* C2: every profile the aggregation creates has pro, anti or general
\* evidence, and every row built, sorted or written carries one of the four
\* categories, never "Unknown".
C2_ClassificationTotal ==
    /\ Aggregated =>
           \A k \in DOMAIN gene_evidence :
               \/ gene_evidence[k].pro_evidence # {}
               \/ gene_evidence[k].anti_evidence # {}
               \/ gene_evidence[k].general_evidence # {}
    /\ \A i \in DOMAIN consolidated_data :
           consolidated_data[i].category \in FourCategories
    /\ \A i \in DOMAIN df : df[i].category \in FourCategories
    /\ \A i \in DOMAIN consolidated_csv : consolidated_csv[i].category \in FourCategories

\* a finished run in which a mouse record had no reverse-index entry
C2_Witness ==
    /\ pc = "done"
    /\ \E l \in MouseLabels : \E m \in sources[l] : m \notin DOMAIN m2h
    /\ \E l \in MouseLabels : \E m \in sources[l] : m \in DOMAIN m2h

\* C3: evidence_score is the number of distinct labels in the union of the
\* gene's pro, anti and general evidence and the number of labels in the
\* sources column, which lists each label of the union once.
C3_EvidenceScore ==
    DfReady =>
        \A i \in DOMAIN df :
            LET e == gene_evidence[df[i].human_symbol]
                union == e.pro_evidence \cup e.anti_evidence \cup e.general_evidence
            IN  /\ df[i].evidence_score = Cardinality(union)
                /\ df[i].evidence_score = Len(df[i].sources)
                /\ Range(df[i].sources) = union
                /\ \A a \in DOMAIN df[i].sources : \A b \in DOMAIN df[i].sources :
                       df[i].sources[a] = df[i].sources[b] => a = b

\* a finished run where a source file lists a gene twice and the gene has a
\* second source: its score is 2
C3_Witness ==
    /\ pc = "done"
    /\ \E l \in SourceLabels : \E a \in DOMAIN source_files[l] :
       \E b \in DOMAIN source_files[l] : \E i \in DOMAIN df :
           /\ a < b
           /\ source_files[l][a] = source_files[l][b]
           /\ df[i].human_symbol = source_files[l][a]
           /\ df[i].evidence_score = 2

\* C4: the table is ordered by descending evidence_score and, at equal score,
\* by ascending upper-cased human symbol.
C4_SortedByUpperCasedSymbol ==
    DfReady =>
        \A i \in DOMAIN df : \A j \in DOMAIN df :
            i < j =>
                \/ df[i].evidence_score > df[j].evidence_score
                \/ /\ df[i].evidence_score = df[j].evidence_score
                   /\ StrLeq(Upper(df[i].human_symbol), Upper(df[j].human_symbol))

MouseField(l) == IF l = "GO_Pro_Mouse" THEN "pro_evidence" ELSE "anti_evidence"
OtherFields(l) ==
    {"pro_evidence", "anti_evidence", "general_evidence"} \ {MouseField(l)}

\* C5: a mouse record with a reverse-index entry m -> H puts its label in H's
\* profile, in the field of its polarity, and m among H's mouse symbols; a mouse
\* label is in a profile only by such a record; an unmapped record creates
\* no profile; and the run fails later only when no profile exists at all.
C5_MouseProjection ==
    Aggregated =>
        /\ \A l \in MouseLabels : \A m \in sources[l] :
               m \in DOMAIN m2h =>
                   /\ m2h[m] \in DOMAIN gene_evidence
                   /\ l \in gene_evidence[m2h[m]][MouseField(l)]
                   /\ m \in gene_evidence[m2h[m]].mouse_symbols
        /\ \A h \in DOMAIN gene_evidence : \A l \in MouseLabels :
               /\ \A f \in OtherFields(l) : l \notin gene_evidence[h][f]
               /\ l \in gene_evidence[h][MouseField(l)] =>
                      \E m \in sources[l] : m \in DOMAIN m2h /\ m2h[m] = h
        /\ DOMAIN gene_evidence =
               UNION {sources[l] : l \in HumanLabels}
               \cup {m2h[m] : m \in {x \in UNION {sources[l] : l \in MouseLabels} :
                                        x \in DOMAIN m2h}}
        /\ pc = "KeyError" => DOMAIN gene_evidence = {}

\* a finished run with a projected mouse record whose human gene has no human
\* record, and an unmapped mouse record
C5_Witness ==
    /\ pc = "done"
    /\ \E m \in sources["GO_Anti_Mouse"] :
           /\ m \in DOMAIN m2h
           /\ m2h[m] \notin UNION {sources[l] : l \in HumanLabels}
    /\ \E l \in MouseLabels : \E m \in sources[l] : m \notin DOMAIN m2h

\* the rows of the pair table with human symbol h, with mouse symbol m
RowsOfHuman(h) == {i \in DOMAIN orthology_file : orthology_file[i][1] = h}
RowsOfMouse(m) == {i \in DOMAIN orthology_file : orthology_file[i][2] = m}

\* C6: the forward index maps each human symbol of the pair table to all the
\* mouse symbols of its rows; the reverse index maps each mouse symbol to the
\* human symbol of the last row that holds it.
C6_OrthologyIndex ==
    pc \notin {"main", "exit1"} =>
        /\ DOMAIN h2m = {orthology_file[i][1] : i \in DOMAIN orthology_file}
        /\ \A h \in DOMAIN h2m :
               /\ Range(h2m[h]) = {orthology_file[i][2] : i \in RowsOfHuman(h)}
               /\ Len(h2m[h]) = Cardinality(RowsOfHuman(h))
        /\ DOMAIN m2h = {orthology_file[i][2] : i \in DOMAIN orthology_file}
        /\ \A m \in DOMAIN m2h :
               LET last == CHOOSE i \in RowsOfMouse(m) : \A j \in RowsOfMouse(m) : j <= i
               IN  m2h[m] = orthology_file[last][1]

\* the pair table was loaded and pairs one mouse symbol with two human
\* symbols, and one human symbol with two mouse symbols
C6_Witness ==
    /\ pc = "done"
    /\ \E i \in DOMAIN orthology_file : \E j \in DOMAIN orthology_file :
           /\ i < j
           /\ orthology_file[i][2] = orthology_file[j][2]
           /\ orthology_file[i][1] # orthology_file[j][1]

\* the records of the loaded sources
Records == UNION {{<<l, g>> : g \in sources[l]} : l \in SourceLabels}

\* the orders in which the records can be filed, each record once or one of
\* them twice
Refilings ==
    LET n == Cardinality(Records)
    IN  {seq \in [1..n -> Records] \cup [1..(n + 1) -> Records] : Range(seq) = Records}

\* the table consolidate_genes builds when the records are filed in order seq
TableOf(seq) == SortValues(CategorizeAll(FileAll(EmptyMap, seq, h2m, m2h)))

\* C12: whatever the order in which the records of the sources are filed,
\* and whether or not one record is filed twice, the consolidated table is
\* the table of the run.
C12_AggregationCommutativeIdempotent ==
    DfReady => \A seq \in Refilings : TableOf(seq) = df

\* a finished run with three records, two of them of one gene, for which
\* another filing order with a repeated record builds the dict in another order
C12_Witness ==
    /\ pc = "done"
    /\ Cardinality(Records) = 3
    /\ \E i \in DOMAIN df : df[i].evidence_score = 2
    /\ \E seq \in Refilings :
           /\ Len(seq) = 4
           /\ CategorizeAll(FileAll(EmptyMap, seq, h2m, m2h)) # consolidated_data

\* the human symbols that received evidence: those of the human sources and
\* those the mouse records project to
Evidenced ==
    UNION {sources[l] : l \in HumanLabels}
    \cup {m2h[m] : m \in {x \in UNION {sources[l] : l \in MouseLabels} :
                             x \in DOMAIN m2h}}

\* C13: the consolidated table, as returned and as written, has one row for
\* each human symbol that received evidence, no symbol in two rows, and no row
\* for any other symbol.
C13_OneRowPerSymbol ==
    /\ DfReady =>
           /\ \A i \in DOMAIN df : \A j \in DOMAIN df :
                  df[i].human_symbol = df[j].human_symbol => i = j
           /\ {df[i].human_symbol : i \in DOMAIN df} = Evidenced
    /\ pc = "done" => consolidated_csv = df

\* a finished run where a symbol has two records, another symbol has a row by
\* projection only, and a human symbol of the pair table received no evidence
C13_Witness ==
    /\ pc = "done"
    /\ \E i \in DOMAIN df : df[i].evidence_score = 2
    /\ \E i \in DOMAIN df :
           df[i].human_symbol \notin UNION {sources[l] : l \in HumanLabels}
    /\ \E h \in DOMAIN h2m : h \notin Evidenced

\* the key a record is filed under (a mouse record without reverse-index
\* entry is filed nowhere)
FiledUnder(rec, G) ==
    IF rec[1] \in MouseLabels
    THEN rec[2] \in DOMAIN m2h /\ m2h[rec[2]] = G
    ELSE rec[2] = G

\* the row of G when only the records filed under G are in the sources
RowAlone(G) ==
    LET filed == FilingSequence(FilingOrder, iteration)
        own == SelectSeq(filed, LAMBDA rec : FiledUnder(rec, G))
    IN  ConsolidatedRow(G, FileAll(EmptyMap, own, h2m, m2h)[G])

\* C14: the category, sources and evidence_score of every row are those the
\* gene has when the records of all other genes are removed; and with
\* GO_Pro_Human = {CQ}, GO_Anti_Human = {Co}, KEGG = {CQ}, CQ is Pro-apoptotic
\* with score 2 and sources GO_Pro_Human, KEGG.
C14_PerGeneIsolation ==
    DfReady =>
        /\ \A i \in DOMAIN df :
               LET alone == RowAlone(df[i].human_symbol)
               IN  /\ df[i].category = alone.category
                   /\ df[i].sources = alone.sources
                   /\ df[i].evidence_score = alone.evidence_score
        /\ (Records = {<<"GO_Pro_Human", SymCQ>>, <<"GO_Anti_Human", SymCo>>,
                        <<"KEGG", SymCQ>>})
           => \E i \in DOMAIN df :
                  /\ df[i].human_symbol = SymCQ
                  /\ df[i].category = "Pro-apoptotic"
                  /\ df[i].evidence_score = 2
                  /\ df[i].sources = <<"GO_Pro_Human", "KEGG">>

\* the finished run of the scenario
C14_Witness ==
    /\ pc = "done"
    /\ Records = {<<"GO_Pro_Human", SymCQ>>, <<"GO_Anti_Human", SymCo>>,
                   <<"KEGG", SymCQ>>}
    /\ Len(df) = 2

\* C20: a run that finds no pair table ends with exit status 1 at once: no
\* source file was loaded, nothing was aggregated, and neither the
\* consolidated table nor the summary was written.
C20_InputMissingFatal ==
    /\ ~orthology_exists => pc \in {"main", "exit1", "idle"}
    /\ pc = "exit1" =>
           /\ ~orthology_exists
           /\ \A l \in SourceLabels : sources[l] = {} /\ iteration[l] = <<>>
           /\ gene_evidence = EmptyMap
           /\ consolidated_data = <<>> /\ df = <<>>
           /\ consolidated_csv = <<>>
           /\ ~summary_saved

\* a run ended by the missing pair table although the source files hold genes
C20_Witness ==
    /\ pc = "exit1"
    /\ \E l \in SourceLabels : source_files[l] # <<>>

-----------------------------------------------------------------------------
(* Properties of a repeated run *)

\* C11: a run of step 2 repeated on the same symbol sets against the same
\* service responses, and a run of step 3 repeated on the same files, end as
\* the first run did and write the same tables, row for row, whatever the
\* order in which the second run's sets and dicts yield their elements.
C11_Determinism ==
    run = 2 =>
        /\ rpc \in {"done", "exit1", "ZeroDivisionError"} =>
               /\ ResolverOutcome = first_outcome
               /\ Len(service_log) = Len(first_log)
        /\ pc \in {"done", "exit1", "KeyError"} =>
               ConsolidationOutcome = first_outcome

\* a repeated run of step 2 that wrote a pair table after resolving the same
\* identifiers in another order than the first run
C11_Witness ==
    /\ run = 2
    /\ rpc = "done"
    /\ \E k \in DOMAIN service_log :
           /\ k \in DOMAIN first_log
           /\ service_log[k].call = "getgenes"
           /\ service_log[k].batch # first_log[k].batch
    /\ Len(first_outcome.table) = 2

-----------------------------------------------------------------------------
(* Properties of step 2 *)

\* build_comprehensive_mapping has returned a non-empty pair table
TableReady == rpc \in {"save", "done"}

SamePair(r1, r2) ==
    r1.human_symbol = r2.human_symbol /\ r1.mouse_symbol = r2.mouse_symbol

\* C7: no two rows of the pair table have the same (human_symbol,
\* mouse_symbol); every pair built is kept once, as its first-built record, so
\* a pair found by both lookups is tagged human_to_mouse; and the reported
\* number of duplicates is the number of records built minus the rows kept.
C7_PairTableDeduplicated ==
    TableReady =>
        /\ \A i \in DOMAIN mapping_df : \A j \in DOMAIN mapping_df :
               SamePair(mapping_df[i], mapping_df[j]) => i = j
        /\ \A k \in DOMAIN mapping_records : \E i \in DOMAIN mapping_df :
               SamePair(mapping_df[i], mapping_records[k])
        /\ \A i \in DOMAIN mapping_df :
               \E k \in DOMAIN mapping_records :
                   /\ mapping_df[i] = mapping_records[k]
                   /\ \A n \in DOMAIN mapping_records :
                          SamePair(mapping_records[n], mapping_records[k]) => k <= n
        /\ \A i \in DOMAIN mapping_df :
               (\E k \in DOMAIN mapping_records :
                    /\ SamePair(mapping_records[k], mapping_df[i])
                    /\ mapping_records[k].mapping_source = "human_to_mouse")
               => mapping_df[i].mapping_source = "human_to_mouse"
        /\ duplicates_removed = Len(mapping_records) - Len(mapping_df)

\* a finished run in which both lookups found the same pair
C7_Witness ==
    /\ rpc = "done"
    /\ \E k \in DOMAIN mapping_records : \E n \in DOMAIN mapping_records :
           /\ SamePair(mapping_records[k], mapping_records[n])
           /\ mapping_records[k].mapping_source = "human_to_mouse"
           /\ mapping_records[n].mapping_source = "mouse_to_human"
    /\ duplicates_removed > 0

\* the calls of one lookup, in the order they were made
LogOf(phase) == SelectSeq(service_log, LAMBDA e : e.phase = phase)

\* <<symbol, id>>: a querymany of the lookup answered, for the symbol, with an
\* identifier of the other species
Returned(phase, target_taxid) ==
    UNION { UNION { {<<e.out[h].symbol, id>> : id \in Range(TargetIds(e.out[h].genes, target_taxid))}
                    : h \in {x \in DOMAIN e.out : ~e.out[x].notfound} }
            : e \in {x \in Range(LogOf(phase)) : ~x.failed} }

\* the identifier resolved to the non-empty symbol sym
ResolvedTo(id_to_symbol, id, sym) ==
    id \in DOMAIN id_to_symbol /\ id_to_symbol[id] = sym /\ sym # <<>>

\* the symbols the pair table can hold
TableHumanSymbols == {Upper(EntrezSymbol(id)) : id \in HumanEntrezIds}
TableMouseSymbols == {EntrezSymbol(id) : id \in MouseEntrezIds}

\* C8: the pair table holds (H, m) exactly when the human-to-mouse lookup of
\* H returned a mouse identifier that resolved to the non-empty symbol m, or
\* the mouse-to-human lookup of m returned a human identifier that resolved to
\* the non-empty symbol H (human symbols taken in upper case, as the table
\* writes them).
C8_PairTableExact ==
    TableReady =>
        \A H \in TableHumanSymbols : \A m \in TableMouseSymbols :
            (\E i \in DOMAIN mapping_df :
                 mapping_df[i].human_symbol = H /\ mapping_df[i].mouse_symbol = m)
            <=>
            \/ \E r \in Returned("fetch_h2m", MouseTaxid) :
                   Upper(r[1]) = H /\ ResolvedTo(mouse_id_to_symbol, r[2], m)
            \/ \E r \in Returned("fetch_m2h", HumanTaxid) :
                   /\ r[1] = m
                   /\ \E sym \in {EntrezSymbol(id) : id \in HumanEntrezIds} :
                          Upper(sym) = H /\ ResolvedTo(human_id_to_symbol, r[2], sym)

\* the run ended without a pair table
Aborted == rpc \in {"exit1", "ZeroDivisionError"}

\* the run counted its pairs and found none, or no lookup found an ortholog
ZeroPairsProduced ==
    \/ rpc = "exit1" /\ mapping_records = <<>>
    \/ human_to_mouse_ids = <<>> /\ mouse_to_human_ids = <<>>

\* C9: a run that completes has built at least one pair and written the pair
\* table; a run that aborts has written no table and aborts only with zero
\* pairs from both directions.
C9_AbortsOnlyOnZeroPairs ==
    /\ rpc = "done" =>
           /\ mapping_records # <<>>
           /\ full_csv = mapping_df /\ full_csv # <<>>
           /\ simple_csv # <<>>
    /\ Aborted =>
           /\ full_csv = <<>> /\ simple_csv = <<>>
           /\ ZeroPairsProduced

\* the lookup is over
PhaseOver(phase) ==
    CASE phase = "fetch_h2m" ->
             rpc \in {"fetch_m2h", "convert_mouse_start", "convert_mouse",
                      "convert_human_start", "convert_human", "build", "save", "done"}
      [] phase = "fetch_m2h" ->
             rpc \in {"convert_mouse_start", "convert_mouse",
                      "convert_human_start", "convert_human", "build", "save", "done"}
      [] phase = "convert_mouse" ->
             rpc \in {"convert_human_start", "convert_human", "build", "save", "done"}
      [] phase = "convert_human" ->
             rpc \in {"build", "save", "done"}

RECURSIVE Concat(_)
Concat(ss) == IF ss = <<>> THEN <<>> ELSE Head(ss) \o Concat(Tail(ss))

\* the batches of the lookup's calls, one after the other
IssuedItems(phase) ==
    Concat([k \in DOMAIN LogOf(phase) |-> LogOf(phase)[k].batch])

\* every batch was issued, failed or not: the k-th call is at offset
\* (k-1)*batch_size and carries at most batch_size items, none is empty
BatchesCover(phase, n) ==
    LET log == LogOf(phase)
    IN  /\ Len(IssuedItems(phase)) = n
        /\ \A k \in DOMAIN log :
               /\ log[k].offset = (k - 1) * batch_size
               /\ Len(log[k].batch) = Min(batch_size, n - log[k].offset)
               /\ Len(log[k].batch) > 0

\* the hits of the answered querymany calls of a lookup, in order
AnsweredHits(phase) ==
    Concat([k \in DOMAIN LogOf(phase) |->
               IF LogOf(phase)[k].failed THEN <<>> ELSE LogOf(phase)[k].out])

\* the lookup's result holds what its answered batches returned, and nothing
\* else
FetchKeeps(phase, target_taxid, orthologs, all_target_ids) ==
    LET hits == AnsweredHits(phase)
        useful == {h \in DOMAIN hits :
                      ~hits[h].notfound /\ TargetIds(hits[h].genes, target_taxid) # <<>>}
    IN  /\ all_target_ids = {r[2] : r \in Returned(phase, target_taxid)}
        /\ DictKeys(orthologs) = {hits[h].symbol : h \in useful}
        /\ \A i \in DOMAIN orthologs :
               LET mine == {h \in useful : hits[h].symbol = orthologs[i][1]}
                   last == CHOOSE h \in mine : \A x \in mine : x <= h
               IN  orthologs[i][2] = TargetIds(hits[last].genes, target_taxid)

ConvertKeeps(phase, id_to_symbol) ==
    LET hits == AnsweredHits(phase)
    IN  /\ DOMAIN id_to_symbol = {hits[h].query : h \in {x \in DOMAIN hits : hits[x].has_symbol}}
        /\ \A h \in DOMAIN hits :
               hits[h].has_symbol => id_to_symbol[hits[h].query] = hits[h].symbol

\* C10: when a batched lookup is over, every batch of its list was issued in
\* turn, whichever failed, and its result is what the answered batches
\* returned: a failed batch only leaves its own items out.
C10_FailedBatchSkipped ==
    /\ PhaseOver("fetch_h2m") =>
           /\ BatchesCover("fetch_h2m", Len(human_list))
           /\ IssuedItems("fetch_h2m") = human_list
           /\ FetchKeeps("fetch_h2m", MouseTaxid, human_to_mouse_ids, mouse_entrez_ids)
    /\ PhaseOver("fetch_m2h") =>
           /\ BatchesCover("fetch_m2h", Len(mouse_list))
           /\ IssuedItems("fetch_m2h") = mouse_list
           /\ FetchKeeps("fetch_m2h", HumanTaxid, mouse_to_human_ids, human_entrez_ids)
    /\ PhaseOver("convert_mouse") =>
           /\ BatchesCover("convert_mouse", Cardinality(mouse_entrez_ids))
           /\ Range(IssuedItems("convert_mouse")) = mouse_entrez_ids
           /\ ConvertKeeps("convert_mouse", mouse_id_to_symbol)
    /\ PhaseOver("convert_human") =>
           /\ BatchesCover("convert_human", Cardinality(human_entrez_ids))
           /\ Range(IssuedItems("convert_human")) = human_entrez_ids
           /\ ConvertKeeps("convert_human", human_id_to_symbol)

\* a finished run in which a querymany batch failed and the next one was
\* answered, and a getgenes batch was answered and the next one failed
C10_Witness ==
    /\ rpc = "done"
    /\ \E a \in DOMAIN service_log : \E b \in DOMAIN service_log :
           /\ a < b
           /\ service_log[a].call = "querymany" /\ service_log[b].call = "querymany"
           /\ service_log[a].phase = service_log[b].phase
           /\ service_log[a].failed /\ ~service_log[b].failed
    /\ \E a \in DOMAIN service_log : \E b \in DOMAIN service_log :
           /\ a < b
           /\ service_log[a].call = "getgenes" /\ service_log[b].call = "getgenes"
           /\ service_log[a].phase = service_log[b].phase
           /\ ~service_log[a].failed /\ service_log[b].failed
           /\ \E h \in DOMAIN service_log[a].out :
                  /\ service_log[a].out[h].has_symbol
                  /\ service_log[a].out[h].query
                         \in DOMAIN mouse_id_to_symbol \cup DOMAIN human_id_to_symbol

-----------------------------------------------------------------------------
(* Properties of step 4 *)

\* the service gave an id for the term in a batch of the species that did not
\* fail
IdReturned(species, term) ==
    \E k \in DOMAIN annot_log :
        /\ annot_log[k].species = species
        /\ ~annot_log[k].failed
        /\ \E h \in DOMAIN annot_log[k].out :
               /\ annot_log[k].out[h].query = term
               /\ annot_log[k].out[h].kind # "none"

\* the ways a run of step 4 can end without its final table
AnnotatorAborted == apc \in {"ZeroDivisionError"}

\* C19: the annotation is best-effort.  No run aborts and no run is stuck
\* before its end; once the final table is written it has a row for every
\* row of the consolidated table, and a row of which the symbol got no id from
\* the service, the batch having failed or the answer having none, has no id
\* in its field; the coverage is computed and the run goes on, also when no
\* row has a mouse symbol or no symbol was mapped.
C19_BestEffortAnnotation ==
    /\ ~AnnotatorAborted
    /\ apc # "done" => ENABLED AnnotatorNext
    /\ apc \in {"visualize", "done"} =>
           /\ Len(final_csv) = Len(consolidated_csv)
           /\ Len(coverage) = 2
           /\ \A i \in DOMAIN final_csv :
                  /\ final_csv[i].human_symbol = consolidated_csv[i].human_symbol
                  /\ ~IdReturned("human", final_csv[i].human_symbol) =>
                         final_csv[i].human_ensembl_id = NoEnsembl
                  /\ ~IdReturned("mouse", MouseText(final_csv[i])) =>
                         final_csv[i].mouse_ensembl_id = NoEnsembl

\* a run that ended with its final table written, in which a batch failed and
\* left a row without its id while another row has one, and no row has a
\* mouse symbol, so that the mouse coverage is 0 of 0
C19_Witness ==
    /\ apc = "done"
    /\ final_csv # <<>>
    /\ \E k \in DOMAIN annot_log : annot_log[k].failed
    /\ \E i, j \in DOMAIN final_csv :
           /\ final_csv[i].human_ensembl_id = NoEnsembl
           /\ final_csv[j].human_ensembl_id # NoEnsembl
    /\ coverage[2].total = 0
    /\ coverage[2].nan

\* a run that ended with its final table written although no symbol of either
\* species was mapped, with rows that have a mouse symbol
C19_WitnessNothingMapped ==
    /\ apc = "done"
    /\ final_csv # <<>>
    /\ coverage[1].mapped = 0
    /\ coverage[2].mapped = 0
    /\ coverage[2].total > 0

-----------------------------------------------------------------------------
(* Properties of step 5 *)

\* the labels whose breakdown has been written, and the rows written
BreakdownWritten == DictKeys(breakdown_csv)
BreakdownOf(label) == DictGet(breakdown_csv, label)

\* the pattern configured for a label
PatternOf(label) ==
    SOURCE_PATTERNS[CHOOSE i \in DOMAIN SOURCE_PATTERNS :
                        SOURCE_PATTERNS[i][1] = label][2]

\* some source label of the row contains the pattern of the label
MatchesLabel(r, label) ==
    \E i \in DOMAIN r.sources : StrContains(LabelText(r.sources[i]), PatternOf(label))

\* the human symbols of the rows of a table
SymbolsOf(rows) == {rows[i].human_symbol : i \in DOMAIN rows}

\* the four labels are processed in the configured order
BreakdownLabels == {SOURCE_PATTERNS[i][1] : i \in DOMAIN SOURCE_PATTERNS}

\* C15: the breakdown written for a label holds exactly the entries of the
\* final table of which at least one source label contains the pattern of
\* that label, each once; so an entry that matches several labels is in the
\* breakdown of each of them.
C15_BreakdownMembership ==
    \A label \in BreakdownWritten :
        /\ SymbolsOf(BreakdownOf(label)) =
               {final_csv[i].human_symbol :
                    i \in {j \in DOMAIN final_csv : MatchesLabel(final_csv[j], label)}}
        /\ Len(BreakdownOf(label)) =
               Cardinality({j \in DOMAIN final_csv : MatchesLabel(final_csv[j], label)})

\* all four breakdowns are written; an entry whose sources are a GO label
\* followed by KEGG is in the breakdowns of KEGG and of GO, and not in that of
\* Hallmark
C15_Witness ==
    /\ bpc = "done"
    /\ BreakdownWritten = BreakdownLabels
    /\ \E i \in DOMAIN final_csv :
           /\ Len(final_csv[i].sources) >= 2
           /\ final_csv[i].sources[Len(final_csv[i].sources)] = "KEGG"
           /\ final_csv[i].human_symbol \in SymbolsOf(BreakdownOf("KEGG"))
           /\ final_csv[i].human_symbol \in SymbolsOf(BreakdownOf("GO"))
           /\ final_csv[i].human_symbol \notin SymbolsOf(BreakdownOf("Hallmark"))

\* the rank of a category in the fixed order
CategoryRank(category) ==
    CASE category = "Pro-apoptotic" -> 1
      [] category = "Anti-apoptotic" -> 2
      [] category = "Ambiguous" -> 3
      [] category = "Unspecified" -> 4
      [] OTHER -> 5

\* the rows are in the order of the claim: by category rank, then by symbol
SortedByCategory(rows) ==
    \A i, j \in DOMAIN rows :
        i < j =>
            \/ CategoryRank(rows[i].category) < CategoryRank(rows[j].category)
            \/ /\ CategoryRank(rows[i].category) = CategoryRank(rows[j].category)
               /\ StrLess(rows[i].human_symbol, rows[j].human_symbol)

\* the order in which the rows of a breakdown stand in the final table
SymbolsInOrder(rows) == [i \in DOMAIN rows |-> rows[i].human_symbol]

\* C16: every breakdown written is sorted by category in the order
\* Pro-apoptotic, Anti-apoptotic, Ambiguous, Unspecified, then by human
\* symbol ascending, whatever the order of the final table.
C16_BreakdownSorted ==
    \A label \in BreakdownWritten : SortedByCategory(BreakdownOf(label))

\* a breakdown of which the rows stand in another order than in the final
\* table, with an Anti-apoptotic or Ambiguous row after a Pro-apoptotic one
C16_Witness ==
    /\ bpc = "done"
    /\ \E label \in BreakdownWritten :
           LET rows == BreakdownOf(label)
           IN  /\ SymbolsInOrder(rows) #
                      SymbolsInOrder(SelectSeq(final_csv,
                          LAMBDA r : r.human_symbol \in SymbolsOf(rows)))
               /\ \E i, j \in DOMAIN rows :
                      /\ i < j
                      /\ rows[i].category = "Pro-apoptotic"
                      /\ rows[j].category \in {"Anti-apoptotic", "Ambiguous"}

\* the sum of the numbers of a list
RECURSIVE SumOf(_)
SumOf(counts) == IF counts = <<>> THEN 0 ELSE Head(counts) + SumOf(Tail(counts))

\* C17: for every label, the four counts of add_category_stats add up to its
\* Total, and the Total is the number of entries of the final table that
\* match the label.
C17_BreakdownConsistency ==
    \A label \in DictKeys(all_stats) :
        LET stats == DictGet(all_stats, label)
        IN  /\ Len(stats.counts) = 4
            /\ SumOf(stats.counts) = stats.Total
            /\ stats.Total =
                   Cardinality({j \in DOMAIN final_csv : MatchesLabel(final_csv[j], label)})

\* the statistics of the four labels are in the report, a label with
\* entries of two categories, one of them Unspecified, and a label with none
C17_Witness ==
    /\ bpc = "done"
    /\ DictKeys(breakdown_summary) = BreakdownLabels
    /\ \E label \in BreakdownLabels :
           LET stats == DictGet(breakdown_summary, label)
           IN  /\ stats.counts[4] >= 1
               /\ stats.Total > stats.counts[4]
    /\ \E label \in BreakdownLabels : DictGet(breakdown_summary, label).Total = 0

\* C18: every row of every breakdown is a row of the final table, with its
\* category, symbols, identifiers, sources and evidence score; and the table
\* that was loaded stays the final table while the labels are processed.
C18_BreakdownFrame ==
    /\ \A label \in BreakdownWritten :
           \A i \in DOMAIN BreakdownOf(label) :
               \E j \in DOMAIN final_csv : BreakdownOf(label)[i] = final_csv[j]
    /\ bpc \in {"filter", "done"} => breakdown_df = final_csv

\* two labels with a breakdown that is neither empty nor the whole table, the
\* second processed after the first
C18_Witness ==
    /\ bpc = "done"
    /\ \E k1, k2 \in DOMAIN breakdown_csv :
           /\ k1 < k2
           /\ breakdown_csv[k1][2] # <<>>
           /\ breakdown_csv[k2][2] # <<>>
           /\ Len(breakdown_csv[k1][2]) < Len(final_csv)
           /\ Len(breakdown_csv[k2][2]) < Len(final_csv)
           /\ SymbolsOf(breakdown_csv[k1][2]) # SymbolsOf(breakdown_csv[k2][2])

-----------------------------------------------------------------------------
(* Further properties of step 3 *)

\* the source files have been read
SourcesLoaded == pc \in {"aggregate", "categorize", "sort", "save", "done", "KeyError"}

\* no record of the sources can be filed: the human sources are empty and no
\* mouse symbol of the mouse sources is a key of the reverse index
NoEvidenceFound ==
    /\ SourcesLoaded
    /\ \A l \in HumanLabels : sources[l] = {}
    /\ \A l \in MouseLabels : \A m \in sources[l] : m \notin DOMAIN m2h

\* C21: when no gene receives evidence the run of step 3 does not complete:
\* it goes on to the sort, which fails, and neither the consolidated table
\* nor the summary is written.
C21_NoEvidenceFatal ==
    NoEvidenceFound =>
        /\ pc \in {"aggregate", "categorize", "sort", "KeyError"}
        /\ pc # "KeyError" => ENABLED ConsolidationNext
        /\ Aggregated => gene_evidence = EmptyMap
        /\ consolidated_csv = <<>>
        /\ ~summary_saved

\* a run that failed at the sort with mouse records only, none of them in the
\* reverse index, and a pair table that is not empty
C21_Witness ==
    /\ pc = "KeyError"
    /\ NoEvidenceFound
    /\ \E l \in MouseLabels : sources[l] # {}
    /\ DOMAIN m2h # {}
    /\ consolidated_csv = <<>>

-----------------------------------------------------------------------------
(* Properties of the batched lookups *)

\* no call of the lookup failed
NoBatchFailed(phase) == \A k \in DOMAIN LogOf(phase) : ~LogOf(phase)[k].failed

\* the calls of a lookup of step 4, and the lookup being over
AnnotLogOf(species) == SelectSeq(annot_log, LAMBDA e : e.species = species)

AnnotOver(species) ==
    IF species = "human"
    THEN apc \in {"mouse_start", "mouse_batch", "merge", "coverage", "save",
                  "visualize", "done"}
    ELSE apc \in {"merge", "coverage", "save", "visualize", "done"}

\* the items a lookup of step 4 has to send
AnnotItems(species) ==
    IF species = "human"
    THEN ValidSymbols([i \in DOMAIN annot_df |-> annot_df[i].human_symbol])
    ELSE ValidSymbols([i \in DOMAIN annot_df |-> MouseText(annot_df[i])])

\* the batches of a lookup of step 4 are its items cut into runs of
\* annot_batch_size, the last one shorter but not empty
AnnotBatchesCover(species) ==
    LET log == AnnotLogOf(species)
        n == Len(AnnotItems(species))
    IN  /\ Concat([k \in DOMAIN log |-> log[k].batch]) = AnnotItems(species)
        /\ \A k \in DOMAIN log :
               /\ Len(log[k].batch) = Min(annot_batch_size, n - (k - 1) * annot_batch_size)
               /\ Len(log[k].batch) > 0

\* what one call over all the items would have returned: the answers of the
\* batches, one after the other
AnnotSingleCall(species) ==
    Concat([k \in DOMAIN AnnotLogOf(species) |-> AnnotLogOf(species)[k].out])

\* C22: in each of the three batched lookups, for every batch size of the
\* model, 1 included, the batches issued are the items of the lookup, each
\* item in one batch and no batch empty; and when no batch failed the result
\* of the lookup is the result of one call over all the items.
C22_BatchingCorrect ==
    /\ PhaseOver("fetch_h2m") =>
           /\ BatchesCover("fetch_h2m", Len(human_list))
           /\ IssuedItems("fetch_h2m") = human_list
           /\ NoBatchFailed("fetch_h2m") =>
                  [orthologs |-> human_to_mouse_ids, all_target_ids |-> mouse_entrez_ids]
                  = ProcessHits(AnsweredHits("fetch_h2m"), MouseTaxid,
                                [orthologs |-> <<>>, all_target_ids |-> {}])
    /\ PhaseOver("fetch_m2h") =>
           /\ BatchesCover("fetch_m2h", Len(mouse_list))
           /\ IssuedItems("fetch_m2h") = mouse_list
           /\ NoBatchFailed("fetch_m2h") =>
                  [orthologs |-> mouse_to_human_ids, all_target_ids |-> human_entrez_ids]
                  = ProcessHits(AnsweredHits("fetch_m2h"), HumanTaxid,
                                [orthologs |-> <<>>, all_target_ids |-> {}])
    /\ PhaseOver("convert_mouse") =>
           /\ BatchesCover("convert_mouse", Cardinality(mouse_entrez_ids))
           /\ Len(IssuedItems("convert_mouse")) = Cardinality(Range(IssuedItems("convert_mouse")))
           /\ Range(IssuedItems("convert_mouse")) = mouse_entrez_ids
           /\ NoBatchFailed("convert_mouse") =>
                  mouse_id_to_symbol =
                      ProcessGeneHits(AnsweredHits("convert_mouse"), EmptyMap)
    /\ PhaseOver("convert_human") =>
           /\ BatchesCover("convert_human", Cardinality(human_entrez_ids))
           /\ Len(IssuedItems("convert_human")) = Cardinality(Range(IssuedItems("convert_human")))
           /\ Range(IssuedItems("convert_human")) = human_entrez_ids
           /\ NoBatchFailed("convert_human") =>
                  human_id_to_symbol =
                      ProcessGeneHits(AnsweredHits("convert_human"), EmptyMap)
    /\ \A species \in {"human", "mouse"} :
           AnnotOver(species) =>
               /\ AnnotBatchesCover(species)
               /\ (\A k \in DOMAIN AnnotLogOf(species) : ~AnnotLogOf(species)[k].failed) =>
                      (IF species = "human" THEN human_ensembl_map ELSE mouse_ensembl_map)
                      = ProcessEnsemblHits(AnnotSingleCall(species), <<>>)

\* a finished run of step 2 with batches of one item in which no call failed,
\* two symbols were looked up in two calls and two ids were converted in two
\* calls
C22_Witness ==
    /\ rpc = "done"
    /\ batch_size = 1
    /\ \A k \in DOMAIN service_log : ~service_log[k].failed
    /\ Len(LogOf("fetch_h2m")) = 2
    /\ human_to_mouse_ids # <<>>
    /\ \E phase \in {"convert_mouse", "convert_human"} : Len(LogOf(phase)) >= 2

\* a finished run of step 4 with batches of one item in which no call failed
\* and two symbols, looked up in two calls, got their ids
C22_WitnessAnnotator ==
    /\ apc = "done"
    /\ annot_batch_size = 1
    /\ \A k \in DOMAIN annot_log : ~annot_log[k].failed
    /\ Len(AnnotLogOf("human")) = 2
    /\ Len(human_ensembl_map) = 2

-----------------------------------------------------------------------------
(* Further properties of step 4 *)

\* the columns of the consolidated table
ConsolidatedColumns == {"human_symbol", "mouse_symbol", "category", "sources", "evidence_score"}

\* C23: the final table has the rows of the consolidated table, in its
\* order; each row has the five columns of its consolidated row, unchanged,
\* and the two identifier columns besides.
C23_AnnotationFrame ==
    apc \in {"visualize", "done"} =>
        /\ DOMAIN final_csv = DOMAIN consolidated_csv
        /\ \A i \in DOMAIN final_csv :
               /\ DOMAIN final_csv[i] =
                      ConsolidatedColumns \cup {"human_ensembl_id", "mouse_ensembl_id"}
               /\ \A c \in ConsolidatedColumns : final_csv[i][c] = consolidated_csv[i][c]

\* a finished run on a table of two rows, one with a mouse symbol and one
\* without, one with a human id and one without
C23_Witness ==
    /\ apc = "done"
    /\ Len(final_csv) = 2
    /\ \E i, j \in DOMAIN final_csv :
           /\ final_csv[i].mouse_symbol = <<>>
           /\ final_csv[j].mouse_symbol # <<>>
           /\ final_csv[j].mouse_ensembl_id # NoEnsembl
    /\ \E i, j \in DOMAIN final_csv :
           /\ final_csv[i].human_ensembl_id = NoEnsembl
           /\ final_csv[j].human_ensembl_id # NoEnsembl

\* the rows of the pair table as pairs <<human_symbol, mouse_symbol>>
PairRows == Range(orthology_file)

\* C24: in every row of the consolidated table, each mouse symbol of
\* mouse_symbol stands with the row's human symbol in a row of the pair
\* table.
C24_MouseSymbolsArePaired ==
    DfReady =>
        \A i \in DOMAIN df :
            \A m \in Range(df[i].mouse_symbol) : <<df[i].human_symbol, m>> \in PairRows

\* a finished run with a pair table of two human symbols and a row that lists
\* a mouse symbol
C24_Witness ==
    /\ pc = "done"
    /\ Cardinality({r[1] : r \in PairRows}) = 2
    /\ \E i \in DOMAIN df : df[i].mouse_symbol # <<>>
    /\ \E l \in MouseLabels : sources[l] # {}

\* the labels of the three kinds
ProLabels == {"GO_Pro_Human", "GO_Pro_Mouse"}
AntiLabels == {"GO_Anti_Human", "GO_Anti_Mouse"}

\* C25: the category of a row follows from its sources column: Ambiguous
\* with a pro and an anti label, Pro-apoptotic with a pro and no anti label,
\* Anti-apoptotic with an anti and no pro label, Unspecified with general
\* labels only; and each evidence set holds labels of its own kind only.
C25_CategoryFromSources ==
    /\ Aggregated =>
           \A g \in DOMAIN gene_evidence :
               /\ gene_evidence[g].pro_evidence \subseteq ProLabels
               /\ gene_evidence[g].anti_evidence \subseteq AntiLabels
               /\ gene_evidence[g].general_evidence \subseteq Range(GeneralLabels)
    /\ DfReady =>
           \A i \in DOMAIN df :
               LET labels == Range(df[i].sources)
                   pro == labels \cap ProLabels # {}
                   anti == labels \cap AntiLabels # {}
               IN  /\ df[i].category = "Ambiguous" <=> pro /\ anti
                   /\ df[i].category = "Pro-apoptotic" <=> pro /\ ~anti
                   /\ df[i].category = "Anti-apoptotic" <=> anti /\ ~pro
                   /\ df[i].category = "Unspecified" <=>
                          labels # {} /\ labels \subseteq Range(GeneralLabels)

\* a finished run with a row that is Anti-apoptotic by a mouse record and has
\* a general label too, and a row that is Unspecified
C25_Witness ==
    /\ pc = "done"
    /\ \E i, j \in DOMAIN df :
           /\ df[i].category = "Anti-apoptotic"
           /\ "GO_Anti_Mouse" \in Range(df[i].sources)
           /\ Range(df[i].sources) \cap Range(GeneralLabels) # {}
           /\ df[j].category = "Unspecified"

\* the gene has a record in a human source
HasHumanRecord(H) == \E l \in HumanLabels : H \in sources[l]

\* a mouse record projects to the gene
HasProjectedRecord(H) ==
    \E l \in MouseLabels : \E m \in sources[l] : m \in DOMAIN m2h /\ m2h[m] = H

\* C26: a row of a gene with a record of a human source lists every mouse
\* symbol the pair table gives the gene; a row of a gene that the pair table
\* does not give as a human symbol, and that no mouse record projects to,
\* lists none.
C26_ForwardOrthologs ==
    DfReady =>
        \A i \in DOMAIN df :
            LET H == df[i].human_symbol
                listed == {r[2] : r \in {p \in PairRows : p[1] = H}}
            IN  /\ HasHumanRecord(H) /\ listed # {} =>
                       listed \subseteq Range(df[i].mouse_symbol)
                /\ listed = {} /\ ~HasProjectedRecord(H) => df[i].mouse_symbol = <<>>

\* a finished run with a row of a gene of a human source to which the pair
\* table gives two mouse symbols, and a row of a gene the table does not hold
C26_Witness ==
    /\ pc = "done"
    /\ \E i, j \in DOMAIN df :
           /\ HasHumanRecord(df[i].human_symbol)
           /\ Len(df[i].mouse_symbol) = 2
           /\ df[j].human_symbol \notin {r[1] : r \in PairRows}
           /\ df[j].mouse_symbol = <<>>

-----------------------------------------------------------------------------
(* Further properties of step 5 *)

\* the labels step 3 writes for the GO sources
GOLabels == {"GO_Pro_Human", "GO_Anti_Human", "GO_Pro_Mouse", "GO_Anti_Mouse"}

\* C28: every label step 3 can write in a sources column contains the
\* pattern of a configured breakdown label; so, once the breakdowns are
\* written, every entry of the final table is in at least one of them, and
\* the GO breakdown holds exactly the entries with a GO source, of the human
\* or of the mouse.
C28_BreakdownsCover ==
    /\ \A l \in SourceLabels :
           \E k \in DOMAIN SOURCE_PATTERNS : StrContains(LabelText(l), SOURCE_PATTERNS[k][2])
    /\ bpc = "done" =>
           /\ \A i \in DOMAIN final_csv :
                  \E label \in BreakdownWritten :
                      final_csv[i].human_symbol \in SymbolsOf(BreakdownOf(label))
           /\ SymbolsOf(BreakdownOf("GO")) =
                  {final_csv[i].human_symbol :
                       i \in {j \in DOMAIN final_csv :
                                  Range(final_csv[j].sources) \cap GOLabels # {}}}

\* the breakdowns of a final table with an entry that has mouse GO sources
\* only, which is in the GO breakdown, and an entry without a GO source,
\* which is not
C28_Witness ==
    /\ bpc = "done"
    /\ \E i, j \in DOMAIN final_csv :
           /\ Range(final_csv[i].sources) \subseteq {"GO_Pro_Mouse", "GO_Anti_Mouse"}
           /\ final_csv[i].human_symbol \in SymbolsOf(BreakdownOf("GO"))
           /\ Range(final_csv[j].sources) \cap GOLabels = {}
           /\ final_csv[j].human_symbol \notin SymbolsOf(BreakdownOf("GO"))

-----------------------------------------------------------------------------
(* Properties of step 3 with an absent source file *)

\* a source file of the run is absent
SomeFileAbsent == \E l \in SourceLabels : ~source_exists[l]

\* the tables of the run in which every file is present, the absent ones
\* with a header and no gene: one for each iteration order of the sets
TablesWithEmptyFiles ==
    {SortValues(CategorizeAll(AggregateEvidence(it, h2m, m2h))) :
         it \in SetOrders([l \in SourceLabels |-> load_source_file(source_files[l])])}

\* C27: an absent source file does not end the run: its set is empty, the
\* sets of the other sources are those of their files, and the consolidated
\* table is the table of the run in which the file is present without a
\* gene.
C27_AbsentSourceIsEmpty ==
    /\ pc = "exit1" => ~orthology_exists
    /\ pc = "load_sources" => ENABLED LoadSources
    /\ SomeFileAbsent /\ SourcesLoaded =>
           \A l \in SourceLabels :
               sources[l] = IF source_exists[l] THEN Range(source_files[l]) ELSE {}
    /\ SomeFileAbsent /\ DfReady => TablesWithEmptyFiles = {df}
    /\ SomeFileAbsent /\ pc = "done" => consolidated_csv = df

\* a finished run in which the KEGG file is absent and the table has rows
\* from a GO source and from another general source
C27_Witness ==
    /\ pc = "done"
    /\ ~source_exists["KEGG"]
    /\ sources["KEGG"] = {}
    /\ \E i, j \in DOMAIN consolidated_csv :
           /\ i # j
           /\ Range(consolidated_csv[i].sources) \cap {"GO_Pro_Human", "GO_Pro_Mouse"} # {}
           /\ Range(consolidated_csv[j].sources) \cap {"Reactome", "Hallmark"} # {}

=============================================================================
